---------------------------- MODULE Spec2Model ----------------------------
(***************************************************************************)
(* Poster matcher of Cleanup_Bot: the feature store (table "posters"), its *)
(* two writers (poster_indexer.run_index, gh_build_sqlite.main), the range *)
(* reader (poster_matcher.load_candidates) and the matching pipeline       *)
(* (shortlist, ensemble_score, decide, run_match).                         *)
(* Further: decision_engine.decide, the shard writer gh_indexer.run_once   *)
(* and the live scanner recent_scan_live.main with its state file.         *)
(*                                                                         *)
(* Numbers.  A perceptual hash of hash_size n is an n x n bit matrix; the  *)
(* model keeps the hashes whose first `bits` bits are set and the others   *)
(* clear, so the Hamming distance of two hashes of one size is the         *)
(* difference of their `bits`.  A histogram keeps two of its 256 bins, in  *)
(* tenths; a correlation (dot product) is therefore in hundredths.  A      *)
(* weight is in tenths, a normalised similarity in 64ths, and a fused      *)
(* score and the two thresholds in units of 1/64000.                       *)
(***************************************************************************)
EXTENDS Integers, Sequences, FiniteSets, TLC

VARIABLES
    dargs,            \* decide: the arguments (score, parts, thresholds)
    dres,             \* decide: the value returned, "pending" before the call
    db,               \* table posters as committed: rows in rowid order
    wtx,              \* the writer's open transaction: its view of the table
    wpc,              \* the writer: "idle", "index" (run_index), "build" (gh_build_sqlite)
    wsince,           \* run_index: since_ts of the run in progress
    wnew_last,        \* run_index: new_last of the run in progress
    wline,            \* gh_build_sqlite: number of shard lines consumed
    shards,           \* the lines of data/shards/*.jsonl, in glob order
    last_indexed_utc, \* state file of run_index
    wcursor,          \* run_index: created_utc of the submission last taken from .new()
    nruns,            \* writer runs started so far (bounded by MaxRuns)
    last,             \* the last upsert of the writer: its record, the table before it
    rsince,           \* the since_ts of the last load_candidates
    candidates,       \* the list returned by the last load_candidates
    mpc,              \* run_match: position in the body of one query
    q_feats,          \* run_match: features of the query image
    cfg,              \* run_match: the configuration in force
    cand_sl,          \* run_match: the shortlist
    scored,           \* run_match: (score, parts, candidate) triples
    report,           \* run_match: the row written for the query
    batch,            \* run_match: the submissions iter_lr_window yields, with their images
    bi,               \* run_match: submissions of the batch taken so far
    rows_csv,         \* run_match: rows_csv / rows_jsonl, one row per query matched
    bpc,              \* run_match over a batch: "start", "loop", "written", "raised"
    de_in,            \* decision_engine.decide: the context and configuration passed
    de_out,           \* decision_engine.decide: the decision returned
    gpc,              \* gh_indexer.run_once: "idle" or "run"
    gseen,            \* gh_indexer.run_once: the set seen
    glist,            \* gh_indexer.run_once: the ids sub.new() has yielded in this run
    gi,               \* gh_indexer.run_once: submissions of the listing taken so far
    gwin,             \* gh_indexer.run_once: start_ts and end_ts of the run
    gruns,            \* gh_indexer.run_once: runs started so far (bounded by MaxShardRuns)
    state_file,       \* recent_scan_live: the ids of the state file, (post id, timestamp) pairs
    clock,            \* recent_scan_live: utcnow().timestamp(), in seconds
    modqueue,         \* the platform: the submissions in the modqueue
    removed,          \* the platform: the submissions removed
    spc,              \* recent_scan_live.main: "idle" or "loop"
    args,             \* recent_scan_live.main: the options of the command line
    posts,            \* recent_scan_live.main: the list fetch_candidates returned
    si,               \* recent_scan_live.main: entries of posts taken so far
    state,            \* recent_scan_live.main: state["ids"] in memory
    calls,            \* the calls made on the platform: op, post, source, run
    handled,          \* the posts taken past the state test: post, time, run
    runs_log,         \* the runs started: the time of gc_state of each
    nscans            \* runs of the scanner started so far (bounded by MaxScans)

vars == <<dargs, dres, db, wtx, wpc, wsince, wnew_last, wline, shards,
          last_indexed_utc, wcursor, nruns, last, rsince, candidates,
          mpc, q_feats, cfg, cand_sl, scored, report,
          batch, bi, rows_csv, bpc, de_in, de_out,
          gpc, gseen, glist, gi, gwin, gruns,
          state_file, clock, modqueue, removed, spc, args, posts, si, state,
          calls, handled, runs_log, nscans>>

decideVars == <<dargs, dres>>
storeVars  == <<db, wtx, wpc, wsince, wnew_last, wline, shards,
                last_indexed_utc, wcursor, nruns, last>>
readVars   == <<rsince, candidates>>
matchVars  == <<mpc, q_feats, cfg, cand_sl, scored, report>>
batchVars  == <<batch, bi, rows_csv, bpc>>
engineVars == <<de_in, de_out>>
shardVars  == <<gpc, gseen, glist, gi, gwin, gruns>>
scanVars   == <<state_file, clock, modqueue, removed, spc, args, posts, si,
                state, calls, handled, runs_log, nscans>>

----------------------------------------------------------------------------
(* Bounds *)

MaxRuns == 2         \* runs of a writer in one behaviour of the store
MaxShardLines == 1   \* lines in the shard files
MaxRows == 2         \* rows of the store file a match run starts from

----------------------------------------------------------------------------
(* Arithmetic helpers *)

Max(a, b) == IF a >= b THEN a ELSE b

Abs(a) == IF a >= 0 THEN a ELSE 0 - a

\* int(numpy.sqrt(n)) for the n that occur (n <= 1024)
Isqrt(n) == CHOOSE r \in 0..32 : r * r <= n /\ (r + 1) * (r + 1) > n

Range(s) == {s[i] : i \in 1..Len(s)}

\* the value standing for "the call raised" where the result is a number
Raised == 0 - 1

----------------------------------------------------------------------------
(* Rasters and submissions: the inputs of the indexers and of the matcher *)

\* bins of the HSV histogram: 16 x 4 x 4
NBins == 256

\* decoded RGB rasters; the bit counts and the histogram are those the
\* imagehash / numpy calls of compute_hashes give for the raster
Rasters == {
    [name |-> "A", width |-> 600, height |-> 900,
     ph16 |-> 0, ph8 |-> 0, dh16 |-> 0, wh |-> 0, ctr |-> 0,
     hist |-> <<6, 8, 0>>],
    [name |-> "B", width |-> 1000, height |-> 1500,
     ph16 |-> 6, ph8 |-> 2, dh16 |-> 10, wh |-> 12, ctr |-> 4,
     hist |-> <<8, 6, 0>>],
    [name |-> "C", width |-> 640, height |-> 640,
     ph16 |-> 6, ph8 |-> 6, dh16 |-> 11, wh |-> 12, ctr |-> 8,
     hist |-> <<10, 0, 0>>],
    [name |-> "D", width |-> 800, height |-> 600,
     ph16 |-> 140, ph8 |-> 40, dh16 |-> 130, wh |-> 120, ctr |-> 150,
     hist |-> <<0, 0, 10>>],
    [name |-> "E", width |-> 700, height |-> 1000,
     ph16 |-> 100, ph8 |-> 20, dh16 |-> 70, wh |-> 30, ctr |-> 65,
     hist |-> <<6, 8, 0>>],
    [name |-> "S", width |-> 300, height |-> 80,
     ph16 |-> 3, ph8 |-> 1, dh16 |-> 5, wh |-> 7, ctr |-> 2,
     hist |-> <<0, 10, 0>>] }

Raster(n) == CHOOSE r \in Rasters : r.name = n

\* submissions of the subreddit as the platform lists them
Posts == {
    [id |-> "p1", created_utc |-> 10, author |-> "u/ann", flair |-> "Drama",
     permalink |-> "/r/x/p1", title |-> "t1"],
    [id |-> "p2", created_utc |-> 20, author |-> "u/bob", flair |-> "Drama",
     permalink |-> "/r/x/p2", title |-> "t2"],
    [id |-> "p3", created_utc |-> 30, author |-> "u/ann", flair |-> "Drama",
     permalink |-> "/r/x/p3", title |-> "t3"] }

PostIds == {p.id : p \in Posts}

\* URL under which the platform serves a raster of a submission
ImageUrl(s, img) == <<"https://i.redd.it", s.id, img.name>>

\* cfg["indexing"]["min_width"], cfg["indexing"]["min_height"]
MinWidth == 200

MinHeight == 200

----------------------------------------------------------------------------
(* imagehash: hashes, their hex form, the Hamming distance *)

\* imagehash.phash/dhash/whash(img, hash_size = n): an n x n bit matrix
ImageHash(n, bits) == [size |-> n, bits |-> bits]

\* str(ImageHash): one hex digit per four bits
HashStr(h) == [hex |-> TRUE, len |-> (h.size * h.size + 3) \div 4, bits |-> h.bits]

\* a value stored in a hash column: hex text of `len` digits, or text that
\* is no hex number (hex |-> FALSE)
HexText(len, bits) == [hex |-> TRUE, len |-> len, bits |-> bits]

\* imagehash.hex_to_hash: hash_size = int(sqrt(len(hexstr) * 4)), then
\* int(hexstr, 16), which raises ValueError on text that is no hex number
hex_to_hash(x) ==
    IF ~x.hex THEN [ok |-> FALSE, size |-> 0, bits |-> 0]
    ELSE [ok |-> TRUE, size |-> Isqrt(x.len * 4), bits |-> x.bits]

\* ImageHash.__sub__: TypeError when the shapes differ, else the number of
\* differing bits
hamming(a, b) ==
    IF a.size # b.size THEN Raised ELSE Abs(a.bits - b.bits)

----------------------------------------------------------------------------
(* numpy: the histogram, its two stored forms, the correlation *)

\* len(repr(x)) of a bin as json.dumps writes it (float32 widened to float)
ReprLen(x) ==
    CASE x = 0  -> 3      \* 0.0
      [] x = 10 -> 3      \* 1.0
      [] x = 6  -> 18     \* 0.6000000238418579
      [] x = 8  -> 17     \* 0.800000011920929
      [] OTHER  -> 18

\* hist.tobytes(): 256 float32 values
ToBytes(vec) == [fmt |-> "f32", nbytes |-> 4 * NBins, vec |-> vec]

\* json.dumps(hist.flatten().tolist()).encode("utf-8"): "[" x ", " x ... "]"
JsonBytes(vec) ==
    [fmt |-> "json",
     nbytes |-> 2 + 2 * (NBins - 1) + ReprLen(vec[1]) + ReprLen(vec[2])
                + ReprLen(vec[3]) + 3 * (NBins - 3),
     vec |-> vec]

\* np.frombuffer(blob, dtype=np.float32).reshape(16,4,4): ValueError unless
\* the buffer is a whole number of 4-byte items and holds exactly 256 of
\* them; bytes that are text give 256 meaningless floats
FromBuffer(blob) ==
    IF blob.nbytes % 4 # 0 \/ blob.nbytes \div 4 # NBins
    THEN [ok |-> FALSE, vec |-> <<0, 0, 0>>]
    ELSE IF blob.fmt = "f32" THEN [ok |-> TRUE, vec |-> blob.vec]
    ELSE [ok |-> TRUE, vec |-> <<0, 0, 0>>]

\* float(np.dot(a.flatten(), b.flatten())), in hundredths
hsv_corr(a, b) == a[1] * b[1] + a[2] * b[2] + a[3] * b[3]

----------------------------------------------------------------------------
(* list.sort(key = ...): stable, ascending in the key.  The elements are  *)
(* records [key |-> <<a, b>>, val |-> x]; keys compare as Python tuples.    *)

KeyLess(k, l) == k[1] < l[1] \/ (k[1] = l[1] /\ k[2] < l[2])

RECURSIVE InsertStable(_, _)
\* x placed behind every element of the sorted list s whose key is not
\* greater than the key of x
InsertStable(x, s) ==
    IF s = <<>> THEN <<x>>
    ELSE IF KeyLess(x.key, Head(s).key) THEN <<x>> \o s
    ELSE <<Head(s)>> \o InsertStable(x, Tail(s))

RECURSIVE StableSort(_)
StableSort(s) ==
    IF s = <<>> THEN <<>>
    ELSE InsertStable(s[Len(s)], StableSort(SubSeq(s, 1, Len(s) - 1)))

\* the values of a list of keyed elements
Vals(s) == [i \in 1..Len(s) |-> s[i].val]

----------------------------------------------------------------------------
(* Feature extraction *)

\* Image.thumbnail((1024, 1024)): the longer side becomes 1024, the other
\* keeps the aspect ratio (rounded)
ThumbSize(w, h) ==
    IF Max(w, h) <= 1024 THEN <<w, h>>
    ELSE IF w >= h THEN <<1024, Max(1, (2 * h * 1024 + w) \div (2 * w))>>
    ELSE <<Max(1, (2 * w * 1024 + h) \div (2 * h)), 1024>>

\* poster_matcher.compute_hashes: hash objects and the histogram array
compute_hashes(img) ==
    [phash16 |-> ImageHash(16, img.ph16),
     phash8 |-> ImageHash(8, img.ph8),
     dhash16 |-> ImageHash(16, img.dh16),
     whash |-> ImageHash(16, img.wh),
     center_phash16 |-> ImageHash(16, img.ctr),
     hsv_hist |-> img.hist]

\* poster_indexer.compute_hashes: the hashes as hex text, the histogram as
\* packed float32 bytes
indexer_compute_hashes(img) ==
    [phash16 |-> HashStr(ImageHash(16, img.ph16)),
     phash8 |-> HashStr(ImageHash(8, img.ph8)),
     dhash16 |-> HashStr(ImageHash(16, img.dh16)),
     whash |-> HashStr(ImageHash(16, img.wh)),
     center_phash16 |-> HashStr(ImageHash(16, img.ctr)),
     hsv_hist |-> ToBytes(img.hist)]

\* poster_shared.compute_features: the hashes as hex text, the histogram as
\* a list of floats, the size of the (downscaled) raster
compute_features(img) ==
    [phash16 |-> HashStr(ImageHash(16, img.ph16)),
     phash8 |-> HashStr(ImageHash(8, img.ph8)),
     dhash16 |-> HashStr(ImageHash(16, img.dh16)),
     whash |-> HashStr(ImageHash(16, img.wh)),
     center_phash16 |-> HashStr(ImageHash(16, img.ctr)),
     hsv_hist |-> img.hist,
     width |-> ThumbSize(img.width, img.height)[1],
     height |-> ThumbSize(img.width, img.height)[2]]

\* should_keep_image with "or" in place of "and"
should_keep_image_either(img) ==
    img.width >= MinWidth \/ img.height >= MinHeight

\* poster_indexer.should_keep_image
should_keep_image(img) == img.width >= MinWidth /\ img.height >= MinHeight

\* gh_indexer.run_once: the size test on the features, whose width and
\* height are those of the raster as downscaled by compute_features
shard_keeps(feats) == ~(feats.width < MinWidth \/ feats.height < MinHeight)

----------------------------------------------------------------------------
(* The records the two writers hand to the table *)

\* run_index: rec built for submission s from raster img
IndexRec(s, img) ==
    LET feats == indexer_compute_hashes(img) IN
    [post_id |-> s.id,
     created_utc |-> s.created_utc,
     author |-> s.author,
     flair |-> s.flair,
     permalink |-> <<"https://www.reddit.com", s.permalink>>,
     image_url |-> ImageUrl(s, img),
     width |-> img.width,
     height |-> img.height,
     phash16 |-> feats.phash16,
     phash8 |-> feats.phash8,
     dhash16 |-> feats.dhash16,
     whash_haar |-> feats.whash,
     center_phash16 |-> feats.center_phash16,
     hsv_hist |-> feats.hsv_hist,
     meta_json |-> <<"title", s.title>>]

\* gh_indexer.run_once: the object written as one shard line
ShardRec(s, img) ==
    LET feats == compute_features(img) IN
    [post_id |-> s.id,
     created_utc |-> s.created_utc,
     author |-> s.author,
     flair |-> s.flair,
     permalink |-> <<"https://www.reddit.com", s.permalink>>,
     image_url |-> ImageUrl(s, img),
     phash16 |-> feats.phash16,
     phash8 |-> feats.phash8,
     dhash16 |-> feats.dhash16,
     whash |-> feats.whash,
     center_phash16 |-> feats.center_phash16,
     hsv_hist |-> feats.hsv_hist,
     width |-> feats.width,
     height |-> feats.height,
     meta |-> <<"title", s.title>>]

\* gh_build_sqlite.main: the parameter tuple bound to the INSERT for the
\* object o of one shard line
BuildRec(o) ==
    [post_id |-> o.post_id,
     created_utc |-> o.created_utc,
     author |-> o.author,
     flair |-> o.flair,
     permalink |-> o.permalink,
     image_url |-> o.image_url,
     width |-> o.width,
     height |-> o.height,
     phash16 |-> o.phash16,
     phash8 |-> o.phash8,
     dhash16 |-> o.dhash16,
     whash_haar |-> o.whash,
     center_phash16 |-> o.center_phash16,
     hsv_hist |-> JsonBytes(o.hsv_hist),
     meta_json |-> o.meta]

----------------------------------------------------------------------------
(* Table posters: post_id TEXT PRIMARY KEY *)

HasRow(table, pid) == \E i \in 1..Len(table) : table[i].post_id = pid

RowOf(table, pid) == table[CHOOSE i \in 1..Len(table) : table[i].post_id = pid]

\* INSERT OR REPLACE in place of the upsert: the old row is deleted and the
\* record inserted whole
db_upsert_replace(table, rec) ==
    LET other(r) == r.post_id # rec.post_id IN
    Append(SelectSeq(table, other), rec)

\* the upsert with hsv_hist missing from the DO UPDATE SET list
db_upsert_keeps_hist(table, rec) ==
    IF HasRow(table, rec.post_id)
    THEN [i \in 1..Len(table) |->
            IF table[i].post_id = rec.post_id
            THEN [table[i] EXCEPT !.image_url = rec.image_url,
                                  !.phash16 = rec.phash16,
                                  !.phash8 = rec.phash8,
                                  !.dhash16 = rec.dhash16,
                                  !.whash_haar = rec.whash_haar,
                                  !.center_phash16 = rec.center_phash16,
                                  !.meta_json = rec.meta_json]
            ELSE table[i]]
    ELSE Append(table, rec)

\* INSERT ... ON CONFLICT(post_id) DO UPDATE SET image_url, phash16, phash8,
\* dhash16, whash_haar, center_phash16, hsv_hist, meta_json
db_upsert(table, rec) ==
    IF HasRow(table, rec.post_id)
    THEN [i \in 1..Len(table) |->
            IF table[i].post_id = rec.post_id
            THEN [table[i] EXCEPT !.image_url = rec.image_url,
                                  !.phash16 = rec.phash16,
                                  !.phash8 = rec.phash8,
                                  !.dhash16 = rec.dhash16,
                                  !.whash_haar = rec.whash_haar,
                                  !.center_phash16 = rec.center_phash16,
                                  !.hsv_hist = rec.hsv_hist,
                                  !.meta_json = rec.meta_json]
            ELSE table[i]]
    ELSE Append(table, rec)

----------------------------------------------------------------------------
(* poster_matcher.load_candidates *)

\* the body of the try: one row decoded into a candidate
DecodeRow(r) ==
    LET ph16 == hex_to_hash(r.phash16)
        ph8  == hex_to_hash(r.phash8)
        dh16 == hex_to_hash(r.dhash16)
        wh   == hex_to_hash(r.whash_haar)
        ctr  == hex_to_hash(r.center_phash16)
        hist == FromBuffer(r.hsv_hist)
    IN [ok |-> ph16.ok /\ ph8.ok /\ dh16.ok /\ wh.ok /\ ctr.ok /\ hist.ok,
        cand |-> [post_id |-> r.post_id,
                  created_utc |-> r.created_utc,
                  flair |-> r.flair,
                  permalink |-> r.permalink,
                  phash16 |-> ImageHash(ph16.size, ph16.bits),
                  phash8 |-> ImageHash(ph8.size, ph8.bits),
                  dhash16 |-> ImageHash(dh16.size, dh16.bits),
                  whash |-> ImageHash(wh.size, wh.bits),
                  center_phash16 |-> ImageHash(ctr.size, ctr.bits),
                  hsv_hist |-> hist.vec]]

\* SELECT ... FROM posters WHERE created_utc >= ?  (no ORDER BY): the rows
\* come in rowid order from a table scan, in created_utc order from a scan
\* of idx_created
SelectSince(table, since_ts, plan) ==
    LET hit(r) == r.created_utc >= since_ts
        rows == SelectSeq(table, hit)
    IN IF plan = "scan" THEN rows
       ELSE Vals(StableSort([i \in 1..Len(rows) |->
                    [key |-> <<rows[i].created_utc, 0>>, val |-> rows[i]]]))

RECURSIVE DecodeAll_abort(_)
\* the loop with the try around it instead of inside it: the first row that
\* does not decode ends the scan
DecodeAll_abort(rows) ==
    IF rows = <<>> THEN <<>>
    ELSE LET d == DecodeRow(Head(rows)) IN
         IF d.ok THEN <<d.cand>> \o DecodeAll_abort(Tail(rows))
         ELSE <<>>

RECURSIVE DecodeAll(_)
\* for r in rows: try: cands.append(...) except Exception: continue
DecodeAll(rows) ==
    IF rows = <<>> THEN <<>>
    ELSE LET d == DecodeRow(Head(rows)) IN
         IF d.ok THEN <<d.cand>> \o DecodeAll(Tail(rows))
         ELSE DecodeAll(Tail(rows))

load_candidates(table, since_ts, plan) ==
    DecodeAll(SelectSince(table, since_ts, plan))

----------------------------------------------------------------------------
(* poster_matcher.shortlist *)

\* the condition with "and" in place of "or"
KeepBoth(d_ph16, corr, c) == d_ph16 <= c.ph_max /\ corr >= c.hsv_min

\* (d_ph16 <= ph_max) or (corr >= hsv_min)
Keep(d_ph16, corr, c) == d_ph16 <= c.ph_max \/ corr >= c.hsv_min

RECURSIVE ShortlistKept(_, _, _)
\* the list res before it is sorted: (c, d_ph16, corr) for the candidates
\* kept, the sort key (d_ph16, -corr) beside each
ShortlistKept(cands, q, c) ==
    IF cands = <<>> THEN <<>>
    ELSE LET x == Head(cands)
             d_ph16 == hamming(q.phash16, x.phash16)
             corr == hsv_corr(q.hsv_hist, x.hsv_hist)
             rest == ShortlistKept(Tail(cands), q, c)
         IN IF d_ph16 = Raised THEN rest
            ELSE IF Keep(d_ph16, corr, c)
                 THEN <<[key |-> <<d_ph16, 0 - corr>>, val |-> x]>> \o rest
                 ELSE rest

\* res[:n] of Python for n >= 0
Prefix(s, n) == SubSeq(s, 1, IF n < Len(s) THEN n ELSE Len(s))

\* shortlist without the slice [: max_candidates]
shortlist_uncut(cands, q, c) ==
    Vals(StableSort(ShortlistKept(cands, q, c)))

shortlist(cands, q, c) ==
    Vals(Prefix(StableSort(ShortlistKept(cands, q, c)), c.max_candidates))

----------------------------------------------------------------------------
(* poster_matcher.ensemble_score, normalize_score, decide *)

\* 1.0 - dist / max_d without the max(0.0, ...) around it
normalize_score_unclamped(dist, max_d) == 64 - (dist * 64) \div max_d

\* max(0.0, 1.0 - dist / max_d), in 64ths (max_d is 64 or 32)
normalize_score(dist, max_d) == Max(0, 64 - (dist * 64) \div max_d)

\* a threshold or a score given in hundredths, in score units
ScoreUnits(hundredths) == hundredths * 640

ensemble_score(q, c, weights) ==
    LET d_ph16 == hamming(q.phash16, c.phash16)
        d_ph8  == hamming(q.phash8, c.phash8)
        d_dh16 == hamming(q.dhash16, c.dhash16)
        d_wh   == hamming(q.whash, c.whash)
        d_ctr  == hamming(q.center_phash16, c.center_phash16)
        corr   == hsv_corr(q.hsv_hist, c.hsv_hist)
    IN IF Raised \in {d_ph16, d_ph8, d_dh16, d_wh, d_ctr}
       THEN [ok |-> FALSE, score |-> 0, parts |-> <<>>]
       ELSE [ok |-> TRUE,
             score |-> 100 * ( weights.phash16 * normalize_score(d_ph16, 64)
                             + weights.phash8 * normalize_score(d_ph8, 32)
                             + weights.dhash16 * normalize_score(d_dh16, 64)
                             + weights.whash * normalize_score(d_wh, 64)
                             + weights.center * normalize_score(d_ctr, 64) )
                       + 64 * weights.hsv * corr,
             parts |-> [dist_ph16 |-> d_ph16, dist_ph8 |-> d_ph8,
                        dist_dh16 |-> d_dh16, dist_wh |-> d_wh,
                        dist_ctr |-> d_ctr, hsv_corr |-> corr]]

\* decide with hsv_corr > 0.92 in place of >= 0.92
decide_strict_corr(score, parts, thresholds) ==
    IF score >= thresholds.certain
       /\ ( (parts.dist_ph16 <= 6 /\ parts.hsv_corr > 92)
            \/ (parts.dist_ph16 <= 8 /\ parts.dist_dh16 <= 10
                /\ parts.dist_wh <= 12) )
    THEN "CERTAIN"
    ELSE IF score >= thresholds.unsure THEN "UNSURE"
    ELSE "NONE"

\* decide with the second test against thresholds["certain"] too
decide_unsure_at_certain(score, parts, thresholds) ==
    IF score >= thresholds.certain
       /\ ( (parts.dist_ph16 <= 6 /\ parts.hsv_corr >= 92)
            \/ (parts.dist_ph16 <= 8 /\ parts.dist_dh16 <= 10
                /\ parts.dist_wh <= 12) )
    THEN "CERTAIN"
    ELSE IF score >= thresholds.certain THEN "UNSURE"
    ELSE "NONE"

decide(score, parts, thresholds) ==
    IF score >= thresholds.certain
       /\ ( (parts.dist_ph16 <= 6 /\ parts.hsv_corr >= 92)
            \/ (parts.dist_ph16 <= 8 /\ parts.dist_dh16 <= 10
                /\ parts.dist_wh <= 12) )
    THEN "CERTAIN"
    ELSE IF score >= thresholds.unsure THEN "UNSURE"
    ELSE "NONE"

----------------------------------------------------------------------------
(* poster_matcher.run_match: the body of the loop for one query *)

RECURSIVE ScoreAll(_, _, _)
\* for c in cand_sl: try: scored.append((sc, parts, c)) except: continue
ScoreAll(sl, q, weights) ==
    IF sl = <<>> THEN <<>>
    ELSE LET e == ensemble_score(q, Head(sl), weights)
             rest == ScoreAll(Tail(sl), q, weights)
         IN IF e.ok
            THEN <<[sc |-> e.score, parts |-> e.parts, c |-> Head(sl)]>> \o rest
            ELSE rest

\* scored.sort(key=lambda t: t[0], reverse=True): stable, descending score
SortScored(sc) ==
    Vals(StableSort([i \in 1..Len(sc) |->
            [key |-> <<0 - sc[i].sc, 0>>, val |-> sc[i]]]))

\* parts of a row without a best candidate
BlankParts ==
    [dist_ph16 |-> "", dist_dh16 |-> "", dist_wh |-> "", dist_ctr |-> "",
     hsv_corr |-> ""]

\* status, best and the fields of the CSV / JSONL rows that come from them
MatchRow(sc, c) ==
    [status |-> IF sc # <<>> THEN decide(sc[1].sc, sc[1].parts, c.thresholds)
                ELSE "NONE",
     has_best |-> sc # <<>>,
     score |-> IF sc # <<>> THEN sc[1].sc ELSE 0,
     best_post_id |-> IF sc # <<>> THEN sc[1].c.post_id ELSE "",
     best_created_utc |-> IF sc # <<>> THEN sc[1].c.created_utc ELSE 0,
     parts |-> IF sc # <<>> THEN sc[1].parts ELSE BlankParts,
     top |-> [i \in 1..Len(Prefix(sc, c.topk)) |-> sc[i].c.post_id]]

----------------------------------------------------------------------------
(* Values of the variables a specification does not use *)

NoStmt == [op |-> "none"]

NoReport == [status |-> "pending"]

DecideIdle == dargs = <<>> /\ dres = "pending"

StoreIdle ==
    /\ db = <<>> /\ wtx = <<>> /\ wpc = "idle"
    /\ wsince = 0 /\ wnew_last = 0 /\ wline = 0
    /\ shards = <<>> /\ last_indexed_utc = 0 /\ wcursor = 0 /\ nruns = 0
    /\ last = NoStmt

ReadIdle == rsince = 0 /\ candidates = <<>>

MatchIdle ==
    /\ mpc = "idle" /\ q_feats = <<>> /\ cfg = <<>>
    /\ cand_sl = <<>> /\ scored = <<>> /\ report = NoReport

BatchIdle == batch = <<>> /\ bi = 0 /\ rows_csv = <<>> /\ bpc = "idle"

EngineIdle == de_in = <<>> /\ de_out = <<>>

ShardIdle ==
    /\ gpc = "idle" /\ gseen = {} /\ glist = <<>> /\ gi = 0
    /\ gwin = <<>> /\ gruns = 0

ScanIdle ==
    /\ state_file = {} /\ clock = 0 /\ modqueue = {} /\ removed = {}
    /\ spc = "idle" /\ args = <<>> /\ posts = <<>> /\ si = 0 /\ state = {}
    /\ calls = {} /\ handled = {} /\ runs_log = <<>> /\ nscans = 0

----------------------------------------------------------------------------
(* Specification SpecDecide: decide applied to every argument triple *)

DecideScores == {ScoreUnits(h) : h \in {50, 60, 70, 85, 90}}

DecideThresholds ==
    {[certain |-> ScoreUnits(t[1]), unsure |-> ScoreUnits(t[2])] :
        t \in {<<85, 60>>, <<70, 60>>, <<60, 70>>, <<85, 85>>}}

DecideParts ==
    [dist_ph16 : {0, 6, 7, 8, 9}, dist_ph8 : {0}, dist_dh16 : {10, 11},
     dist_wh : {12, 13}, dist_ctr : {0}, hsv_corr : {91, 92}]

InitDecide ==
    /\ dargs \in [score : DecideScores, parts : DecideParts,
                  thresholds : DecideThresholds]
    /\ dres = "pending"
    /\ StoreIdle /\ ReadIdle /\ MatchIdle /\ BatchIdle /\ EngineIdle /\ ShardIdle /\ ScanIdle

DecideCall ==
    /\ dres = "pending"
    /\ dres' = decide(dargs.score, dargs.parts, dargs.thresholds)
    /\ UNCHANGED <<dargs, storeVars, readVars, matchVars, batchVars, engineVars, shardVars, scanVars>>

NextDecide == DecideCall

SpecDecide == InitDecide /\ [][NextDecide]_vars

\* the corroboration rule of decide, on the arguments of the call
Corroborated(parts) ==
    \/ (parts.dist_ph16 <= 6 /\ parts.hsv_corr >= 92)
    \/ (parts.dist_ph16 <= 8 /\ parts.dist_dh16 <= 10 /\ parts.dist_wh <= 12)

\* C1: decide returns CERTAIN exactly when score >= thresholds.certain and
\* (dist_ph16 <= 6 and hsv_corr >= 0.92, or dist_ph16 <= 8 and
\* dist_dh16 <= 10 and dist_wh <= 12), whatever the thresholds are.
C1_CertainIff ==
    dres # "pending" =>
        ( dres = "CERTAIN" <=>
            ( dargs.score >= dargs.thresholds.certain
              /\ Corroborated(dargs.parts) ) )

\* CERTAIN returned through the second rule alone, and CERTAIN refused at a
\* score above the threshold
C1_Witness ==
    /\ dres = "CERTAIN"
    /\ dargs.parts.dist_ph16 = 8
    /\ dargs.parts.hsv_corr = 91

----------------------------------------------------------------------------
(* Specification SpecStore: one writer at a time (run_index or              *)
(* gh_build_sqlite), each inside one SQLite transaction, and readers        *)
(* (load_candidates on a connection of their own) at any moment.  A reader  *)
(* sees the table as last committed; the writer sees its own statements.    *)

\* the submissions of the listing and the rasters they may show
Listing == {p \in Posts : p.id \in {"p1", "p2"}}

StoreRasters == {r \in Rasters : r.name \in {"A", "B", "S"}}

\* a line of a shard file: an object written by gh_indexer.run_once, or
\* text json.loads rejects (a line cut short)
ShardLines ==
    {[json |-> TRUE, o |-> ShardRec(s, img)] :
        s \in Listing,
        img \in {r \in StoreRasters : shard_keeps(compute_features(r))}}
    \cup {[json |-> FALSE, o |-> <<>>]}

\* the shard files gh_indexer leaves: a run skips the post_ids the file
\* held when it began, so a post_id may be on more than one line
ShardFiles == UNION {[1..n -> ShardLines] : n \in 0..MaxShardLines}

\* --since / --delta of poster_indexer.main; NoSince: neither given
NoSince == 0 - 1

SinceArgs == {NoSince, 15}

\* since_ts of the readers (now - lookback_days * 86400)
ReadSince == {0, 15}

\* a created_utc above every submission: nothing taken from the listing yet
Newest == 1 + CHOOSE m \in {p.created_utc : p \in Posts} :
                \A p \in Posts : p.created_utc <= m

\* the next submission subreddit.new() yields after the cursor
IsNextInListing(s, cursor) ==
    /\ s \in Listing
    /\ s.created_utc < cursor
    /\ \A t \in Listing : t.created_utc < cursor => t.created_utc <= s.created_utc

\* iter_new_until_window: the loop stops at the first submission older
\* than since_ts (a since_ts of 0 is falsy and stops nothing)
ListingDone(cursor, since_ts) ==
    \A s \in Listing :
        IsNextInListing(s, cursor) => (since_ts # 0 /\ s.created_utc < since_ts)

InitStore ==
    /\ db = <<>> /\ wtx = <<>> /\ wpc = "idle"
    /\ wsince = 0 /\ wnew_last = 0 /\ wline = 0 /\ wcursor = 0
    /\ shards \in ShardFiles
    /\ last_indexed_utc = 0 /\ nruns = 0
    /\ last = NoStmt
    /\ ReadIdle /\ DecideIdle /\ MatchIdle /\ BatchIdle /\ EngineIdle /\ ShardIdle /\ ScanIdle

\* run_index up to the loop: db_open, load_state, since_ts
IndexBegin(since_arg) ==
    /\ wpc = "idle" /\ nruns < MaxRuns
    /\ wpc' = "index"
    /\ nruns' = nruns + 1
    /\ wtx' = db
    /\ wsince' = IF since_arg = NoSince THEN last_indexed_utc ELSE since_arg
    /\ wnew_last' = last_indexed_utc
    /\ wcursor' = Newest
    /\ UNCHANGED <<db, wline, shards, last_indexed_utc, last,
                   readVars, decideVars, matchVars, batchVars, engineVars, shardVars, scanVars>>

\* one turn of the loop of run_index for submission s showing raster img
IndexOne(s, img) ==
    /\ wpc = "index"
    /\ IsNextInListing(s, wcursor)
    /\ ~(wsince # 0 /\ s.created_utc < wsince)
    /\ wcursor' = s.created_utc
    /\ IF should_keep_image(img)
       THEN /\ wtx' = db_upsert(wtx, IndexRec(s, img))
            /\ wnew_last' = Max(wnew_last, s.created_utc)
            /\ last' = [op |-> "upsert", writer |-> "index",
                        rec |-> IndexRec(s, img),
                        existed |-> HasRow(wtx, s.id),
                        before |-> wtx]
       ELSE UNCHANGED <<wtx, wnew_last, last>>
    /\ UNCHANGED <<db, wpc, wsince, wline, shards, last_indexed_utc, nruns,
                   readVars, decideVars, matchVars, batchVars, engineVars, shardVars, scanVars>>

\* conn.commit(), conn.close(), save_state
IndexCommit ==
    /\ wpc = "index"
    /\ ListingDone(wcursor, wsince)
    /\ db' = wtx
    /\ wpc' = "idle"
    /\ last_indexed_utc' = IF wnew_last > last_indexed_utc THEN wnew_last
                           ELSE last_indexed_utc
    /\ UNCHANGED <<wtx, wsince, wnew_last, wline, wcursor, shards, nruns, last,
                   readVars, decideVars, matchVars, batchVars, engineVars, shardVars, scanVars>>

\* a rebuild that empties the table before it reads the shards
BuildBegin_fresh ==
    /\ wpc = "idle" /\ nruns < MaxRuns
    /\ wpc' = "build"
    /\ nruns' = nruns + 1
    /\ wtx' = <<>>
    /\ wline' = 0
    /\ UNCHANGED <<db, wsince, wnew_last, wcursor, shards, last_indexed_utc,
                   last, readVars, decideVars, matchVars, batchVars, engineVars, shardVars, scanVars>>

\* gh_build_sqlite.main up to the loop
BuildBegin ==
    /\ wpc = "idle" /\ nruns < MaxRuns
    /\ wpc' = "build"
    /\ nruns' = nruns + 1
    /\ wtx' = db
    /\ wline' = 0
    /\ UNCHANGED <<db, wsince, wnew_last, wcursor, shards, last_indexed_utc,
                   last, readVars, decideVars, matchVars, batchVars, engineVars, shardVars, scanVars>>

\* one line of the shard files
BuildLine ==
    /\ wpc = "build"
    /\ wline < Len(shards)
    /\ wline' = wline + 1
    /\ LET line == shards[wline + 1] IN
       IF line.json
       THEN /\ wtx' = db_upsert(wtx, BuildRec(line.o))
            /\ last' = [op |-> "upsert", writer |-> "build",
                        rec |-> BuildRec(line.o),
                        existed |-> HasRow(wtx, line.o.post_id),
                        before |-> wtx]
       ELSE UNCHANGED <<wtx, last>>
    /\ UNCHANGED <<db, wpc, wsince, wnew_last, wcursor, shards,
                   last_indexed_utc, nruns,
                   readVars, decideVars, matchVars, batchVars, engineVars, shardVars, scanVars>>

\* conn.commit(), conn.close()
BuildCommit ==
    /\ wpc = "build"
    /\ wline = Len(shards)
    /\ db' = wtx
    /\ wpc' = "idle"
    /\ UNCHANGED <<wtx, wsince, wnew_last, wline, wcursor, shards,
                   last_indexed_utc, nruns, last,
                   readVars, decideVars, matchVars, batchVars, engineVars, shardVars, scanVars>>

\* the writer's process ends before its commit (the listing raises, the
\* process is killed): SQLite rolls the transaction back
WriterCrash ==
    /\ wpc # "idle"
    /\ wpc' = "idle"
    /\ wtx' = db
    /\ last' = NoStmt
    /\ UNCHANGED <<db, wsince, wnew_last, wline, wcursor, shards,
                   last_indexed_utc, nruns,
                   readVars, decideVars, matchVars, batchVars, engineVars, shardVars, scanVars>>

\* a reader: load_candidates(conn, since_ts) on its own connection
LoadCandidates(since_ts, plan) ==
    /\ rsince' = since_ts
    /\ candidates' = load_candidates(db, since_ts, plan)
    /\ UNCHANGED <<storeVars, decideVars, matchVars, batchVars, engineVars, shardVars, scanVars>>

NextStore ==
    \/ \E a \in SinceArgs : IndexBegin(a)
    \/ \E s \in Listing, img \in StoreRasters : IndexOne(s, img)
    \/ IndexCommit
    \/ BuildBegin
    \/ BuildLine
    \/ BuildCommit
    \/ WriterCrash
    \/ \E t \in ReadSince, plan \in {"scan", "index"} : LoadCandidates(t, plan)

SpecStore == InitStore /\ [][NextStore]_vars

----------------------------------------------------------------------------
(* Properties of the store *)

UniquePostIds(t) ==
    \A i, j \in 1..Len(t) : t[i].post_id = t[j].post_id => i = j

\* the row shows the image of rec: same URL, hashes and histogram
SameImage(row, rec) ==
    /\ row.image_url = rec.image_url
    /\ row.phash16 = rec.phash16
    /\ row.phash8 = rec.phash8
    /\ row.dhash16 = rec.dhash16
    /\ row.whash_haar = rec.whash_haar
    /\ row.center_phash16 = rec.center_phash16
    /\ row.hsv_hist = rec.hsv_hist

\* the last statement was an upsert for a post_id the table already held
Conflict == last.op = "upsert" /\ last.existed

\* ... and the row already came from the same submission and image
Reindexed ==
    /\ Conflict
    /\ SameImage(RowOf(last.before, last.rec.post_id), last.rec)
    /\ RowOf(last.before, last.rec.post_id).created_utc = last.rec.created_utc

\* C6: indexing a submission again with the same image leaves one row for
\* its post_id, with the field values it had, and neither the table nor a
\* list returned by load_candidates ever holds a post_id twice.
C6_UpsertIdempotent ==
    /\ UniquePostIds(db)
    /\ UniquePostIds(wtx)
    /\ UniquePostIds(candidates)
    /\ Reindexed => wtx = last.before

\* run_index has indexed a stored submission a second time, same image
C6_Witness ==
    /\ Reindexed
    /\ last.writer = "index"
    /\ Len(wtx) = 2

\* C7: an upsert for an existing post_id leaves in the row the new record's
\* image URL, five hashes, histogram, width and height, keeps post_id and
\* created_utc, and changes no other row.
C7_UpsertReplacesMutableFields ==
    Conflict =>
        LET pid == last.rec.post_id
            old == RowOf(last.before, pid)
            new == RowOf(wtx, pid)
        IN /\ SameImage(new, last.rec)
           /\ new.width = last.rec.width
           /\ new.height = last.rec.height
           /\ new.post_id = old.post_id
           /\ new.created_utc = old.created_utc
           /\ Len(wtx) = Len(last.before)
           /\ \A i \in 1..Len(wtx) :
                wtx[i].post_id # pid => wtx[i] = last.before[i]

\* the part of C7 the code keeps: everything but width and height
C7_Lemma_AllButDimensions ==
    Conflict =>
        LET pid == last.rec.post_id
            old == RowOf(last.before, pid)
            new == RowOf(wtx, pid)
        IN /\ SameImage(new, last.rec)
           /\ new.width = old.width
           /\ new.height = old.height
           /\ new.post_id = old.post_id
           /\ new.created_utc = old.created_utc
           /\ Len(wtx) = Len(last.before)
           /\ \A i \in 1..Len(wtx) :
                wtx[i].post_id # pid => wtx[i] = last.before[i]

\* the six feature columns of a row come from one raster, in one of the two
\* forms the writers store
CoherentRow(r) ==
    \E img \in Rasters :
        /\ r.phash16 = HashStr(ImageHash(16, img.ph16))
        /\ r.phash8 = HashStr(ImageHash(8, img.ph8))
        /\ r.dhash16 = HashStr(ImageHash(16, img.dh16))
        /\ r.whash_haar = HashStr(ImageHash(16, img.wh))
        /\ r.center_phash16 = HashStr(ImageHash(16, img.ctr))
        /\ r.hsv_hist \in {ToBytes(img.hist), JsonBytes(img.hist)}

\* the six features of a candidate come from one raster
CoherentCand(c) ==
    \E img \in Rasters :
        /\ c.phash16 = compute_hashes(img).phash16
        /\ c.phash8 = compute_hashes(img).phash8
        /\ c.dhash16 = compute_hashes(img).dhash16
        /\ c.whash = compute_hashes(img).whash
        /\ c.center_phash16 = compute_hashes(img).center_phash16
        /\ c.hsv_hist = compute_hashes(img).hsv_hist

\* C8: whatever the writer is doing, a row a reader can see, and a
\* candidate a reader has been given, carries five hashes and a histogram
\* that belong together: all six from one upsert.
C8_NoPartialRecord ==
    /\ \A i \in 1..Len(db) : CoherentRow(db[i])
    /\ \A i \in 1..Len(candidates) : CoherentCand(candidates[i])

\* a reader holds the committed features of a row while the writer's open
\* transaction has already replaced them
C8_Witness ==
    /\ wpc # "idle"
    /\ \E i \in 1..Len(candidates) :
         LET c == candidates[i] IN
         /\ HasRow(wtx, c.post_id) /\ HasRow(db, c.post_id)
         /\ RowOf(db, c.post_id).phash16 = HashStr(c.phash16)
         /\ RowOf(wtx, c.post_id).phash16 # HashStr(c.phash16)

PostIdsOf(t) == {t[i].post_id : i \in 1..Len(t)}

InWindow(t, since_ts) == {t[i].post_id : i \in {j \in 1..Len(t) : t[j].created_utc >= since_ts}}

\* C9: load_candidates returns every stored record with
\* created_utc >= since_ts and none with created_utc < since_ts.
C9_ReturnsWholeWindow ==
    [][\A t \in ReadSince, plan \in {"scan", "index"} :
         LoadCandidates(t, plan) =>
            PostIdsOf(candidates') = InWindow(db, t)]_vars

\* what load_candidates does return: the rows of the window that decode
C9_Lemma_ReturnsDecodableWindow ==
    [][\A t \in ReadSince, plan \in {"scan", "index"} :
         LoadCandidates(t, plan) =>
            PostIdsOf(candidates') =
                {db[i].post_id : i \in {j \in 1..Len(db) :
                    db[j].created_utc >= t /\ DecodeRow(db[j]).ok}}]_vars

----------------------------------------------------------------------------
(* Specification SpecMatch: run_match for one query against a store file    *)

\* the rasters of the stored posts and of the queries
MatchRasters == {r \in Rasters : r.name \in {"A", "B", "C"}}

QueryRasters == {r \in Rasters : r.name \in {"A", "B", "D"}}

\* rows from an indexer with other extraction parameters: phash16 written
\* at hash_size 8, or phash8 written at hash_size 16
LegacyRows(s) ==
    { [IndexRec(s, Raster("A")) EXCEPT !.phash16 = HashStr(ImageHash(8, 0))],
      [IndexRec(s, Raster("A")) EXCEPT !.phash8 = HashStr(ImageHash(16, 0))] }

\* the rows a store file may hold for submission s: written by run_index,
\* by gh_build_sqlite, or legacy
RowsOf(s) ==
    {IndexRec(s, img) : img \in MatchRasters}
    \cup {BuildRec(ShardRec(s, Raster("A")))}
    \cup LegacyRows(s)

\* store files: up to MaxRows rows, post_id unique, in any rowid order
StoreFiles ==
    {f \in UNION {[1..n -> UNION {RowsOf(s) : s \in Posts}] : n \in 0..MaxRows} :
        UniquePostIds(f)}

\* cfg["matching"]["weights"], in tenths
Weights ==
    [phash16 |-> 3, phash8 |-> 1, dhash16 |-> 2, whash |-> 1, center |-> 1,
     hsv |-> 2]

\* weights that sum to 0.6
LowWeights ==
    [phash16 |-> 1, phash8 |-> 1, dhash16 |-> 1, whash |-> 1, center |-> 1,
     hsv |-> 1]

\* configurations load_config returns as it returns any other: the six
\* weights summing to less than thresholds.certain, thresholds.certain
\* below thresholds.unsure
OddConfigs ==
    { [ph_max |-> 10, hsv_min |-> 90, max_candidates |-> 2,
       weights |-> LowWeights,
       thresholds |-> [certain |-> ScoreUnits(85), unsure |-> ScoreUnits(60)],
       topk |-> 3, since |-> 0],
      [ph_max |-> 10, hsv_min |-> 90, max_candidates |-> 2,
       weights |-> Weights,
       thresholds |-> [certain |-> ScoreUnits(60), unsure |-> ScoreUnits(70)],
       topk |-> 3, since |-> 0],
      [ph_max |-> 10, hsv_min |-> 90, max_candidates |-> 2,
       weights |-> LowWeights,
       thresholds |-> [certain |-> ScoreUnits(60), unsure |-> ScoreUnits(70)],
       topk |-> 3, since |-> 0] }

\* the configurations of a run; since is now - lookback_days * 86400
GridConfigs ==
    [ph_max : {4, 10},
     hsv_min : {50, 90},
     max_candidates : {1, 2},
     weights : {Weights},
     thresholds : {[certain |-> ScoreUnits(85), unsure |-> ScoreUnits(60)],
                   [certain |-> ScoreUnits(70), unsure |-> ScoreUnits(60)]},
     topk : {3},
     since : {0, 15}]

Configs == GridConfigs \cup OddConfigs

InitMatch ==
    /\ db \in StoreFiles
    /\ cfg \in Configs
    /\ mpc = "start"
    /\ q_feats = <<>> /\ cand_sl = <<>> /\ scored = <<>> /\ report = NoReport
    /\ wtx = <<>> /\ wpc = "idle"
    /\ wsince = 0 /\ wnew_last = 0 /\ wline = 0 /\ wcursor = 0
    /\ shards = <<>> /\ last_indexed_utc = 0 /\ nruns = 0
    /\ last = NoStmt
    /\ ReadIdle /\ DecideIdle /\ BatchIdle /\ EngineIdle /\ ShardIdle /\ ScanIdle

\* run_match up to the loop: the candidates of the lookback window
MatchLoad(plan) ==
    /\ mpc = "start"
    /\ mpc' = "loaded"
    /\ rsince' = cfg.since
    /\ candidates' = load_candidates(db, cfg.since, plan)
    /\ UNCHANGED <<q_feats, cfg, cand_sl, scored, report, storeVars, decideVars, batchVars, engineVars, shardVars, scanVars>>

\* q_feats = compute_hashes(img); cand_sl = shortlist(candidates, q_feats, cfg)
MatchShortlist(img) ==
    /\ mpc = "loaded"
    /\ mpc' = "shortlisted"
    /\ q_feats' = compute_hashes(img)
    /\ cand_sl' = shortlist(candidates, compute_hashes(img), cfg)
    /\ UNCHANGED <<cfg, scored, report, storeVars, readVars, decideVars, batchVars, engineVars, shardVars, scanVars>>

\* the scoring loop and scored.sort
MatchScore ==
    /\ mpc = "shortlisted"
    /\ mpc' = "scored"
    /\ scored' = SortScored(ScoreAll(cand_sl, q_feats, cfg.weights))
    /\ UNCHANGED <<q_feats, cfg, cand_sl, report, storeVars, readVars, decideVars, batchVars, engineVars, shardVars, scanVars>>

\* status, best and the rows appended for the query
MatchReport ==
    /\ mpc = "scored"
    /\ mpc' = "done"
    /\ report' = MatchRow(scored, cfg)
    /\ UNCHANGED <<q_feats, cfg, cand_sl, scored, storeVars, readVars, decideVars, batchVars, engineVars, shardVars, scanVars>>

NextMatch ==
    \/ \E plan \in {"scan", "index"} : MatchLoad(plan)
    \/ \E img \in QueryRasters : MatchShortlist(img)
    \/ MatchScore
    \/ MatchReport

SpecMatch == InitMatch /\ [][NextMatch]_vars

----------------------------------------------------------------------------
(* Properties of run_match *)

Shortlisted == mpc \in {"shortlisted", "scored", "done"}

\* phash16 distance and histogram correlation of candidate c to the query
DistOf(c) == hamming(q_feats.phash16, c.phash16)

CorrOf(c) == hsv_corr(q_feats.hsv_hist, c.hsv_hist)

\* the filter of the shortlist, for a candidate whose distance computes
PassesFilter(c) ==
    /\ DistOf(c) # Raised
    /\ (DistOf(c) <= cfg.ph_max \/ CorrOf(c) >= cfg.hsv_min)

Passing == {i \in 1..Len(candidates) : PassesFilter(candidates[i])}

\* c comes no later than d in the order (distance ascending, correlation
\* descending)
NotAfter(c, d) ==
    \/ DistOf(c) < DistOf(d)
    \/ (DistOf(c) = DistOf(d) /\ CorrOf(c) >= CorrOf(d))

\* C3: a candidate is kept exactly when its phash16 distance is
\* <= phash16_max_dist or its correlation is >= hsv_min_corr: every entry
\* of the shortlist and every scored candidate passes the filter, and a
\* loaded candidate that passes it is in the shortlist unless the shortlist
\* is full.
C3_ShortlistFilter ==
    Shortlisted =>
        /\ \A i \in 1..Len(cand_sl) :
             cand_sl[i] \in Range(candidates) /\ PassesFilter(cand_sl[i])
        /\ \A i \in 1..Len(scored) : PassesFilter(scored[i].c)
        /\ \A i \in Passing :
             candidates[i] \in Range(cand_sl) \/ Len(cand_sl) = cfg.max_candidates

\* the shortlist holds one candidate kept by its distance alone and one kept
\* by its correlation alone, while a loaded candidate failed both tests
C3_Witness ==
    /\ Shortlisted
    /\ \E i \in 1..Len(cand_sl) :
         DistOf(cand_sl[i]) > cfg.ph_max /\ CorrOf(cand_sl[i]) >= cfg.hsv_min
    /\ \E i \in 1..Len(candidates) :
         /\ DistOf(candidates[i]) # Raised
         /\ ~PassesFilter(candidates[i])

\* the same with a candidate kept by its distance alone
C3_WitnessDistanceAlone ==
    /\ Shortlisted
    /\ \E i \in 1..Len(cand_sl) :
         DistOf(cand_sl[i]) <= cfg.ph_max /\ CorrOf(cand_sl[i]) < cfg.hsv_min

\* C4: the shortlist is in the order (phash16 distance ascending,
\* correlation descending), it is the first max_candidates of the kept
\* candidates in that order, and it never has more than max_candidates
\* entries.
C4_ShortlistSortedAndCut ==
    Shortlisted =>
        /\ Len(cand_sl) <= cfg.max_candidates
        /\ Len(cand_sl) = IF Cardinality(Passing) < cfg.max_candidates
                          THEN Cardinality(Passing) ELSE cfg.max_candidates
        /\ \A i, j \in 1..Len(cand_sl) :
             i < j => NotAfter(cand_sl[i], cand_sl[j])
        /\ \A i \in Passing :
             candidates[i] \notin Range(cand_sl) =>
                 \A j \in 1..Len(cand_sl) : NotAfter(cand_sl[j], candidates[i])

\* more candidates passed the filter than max_candidates allows, and two
\* entries at the same distance are ordered by their correlation
C4_Witness ==
    /\ Shortlisted
    /\ Cardinality(Passing) > cfg.max_candidates
    /\ Len(cand_sl) = cfg.max_candidates

C4_WitnessTieOnDistance ==
    /\ Shortlisted
    /\ Len(cand_sl) = 2
    /\ DistOf(cand_sl[1]) = DistOf(cand_sl[2])
    /\ CorrOf(cand_sl[1]) > CorrOf(cand_sl[2])


Done == mpc = "done"

\* the scores of the scored candidates
ScoresOf(sc) == {sc[i].sc : i \in 1..Len(sc)}

\* the score and parts of the report are those of a scored candidate with
\* the highest score
TopOfScored ==
    /\ report.has_best
    /\ \E i \in 1..Len(scored) :
         /\ scored[i].sc = report.score
         /\ scored[i].parts = report.parts
         /\ scored[i].c.post_id = report.best_post_id
    /\ \A x \in ScoresOf(scored) : x <= report.score

\* the condition under which the result is CERTAIN
IsCertain ==
    /\ report.score >= cfg.thresholds.certain
    /\ Corroborated(report.parts)

\* C2: the status of a query is UNSURE exactly when the top score is
\* >= T_unsure and the result is not CERTAIN, and NONE in every other case
\* that is not CERTAIN; with no scored candidate the row has status NONE
\* and no best candidate, and the run goes on (no error).
C2_UnsureAndNone ==
    Done =>
        /\ report.status \in {"CERTAIN", "UNSURE", "NONE"}
        /\ scored = <<>> =>
             /\ report.status = "NONE"
             /\ ~report.has_best
             /\ report.best_post_id = ""
             /\ report.top = <<>>
        /\ scored # <<>> =>
             /\ TopOfScored
             /\ report.status = "UNSURE" <=>
                    (report.score >= cfg.thresholds.unsure /\ ~IsCertain)
             /\ report.status = "NONE" <=>
                    (report.score < cfg.thresholds.unsure /\ ~IsCertain)

\* candidates were loaded, none reached the scoring, the row says NONE
C2_Witness ==
    /\ Done
    /\ candidates # <<>>
    /\ scored = <<>>
    /\ report.status = "NONE"

\* UNSURE at a score above T_certain: the distances do not corroborate
C2_WitnessUnsureAboveCertain ==
    /\ Done
    /\ report.status = "UNSURE"
    /\ report.score >= cfg.thresholds.certain

\* C5: the candidate reported as best has the maximum fused score among the
\* scored candidates, and among the candidates with that score it is the
\* one with the newest created_utc.
C5_BestIsMaxScoreNewest ==
    (Done /\ report.has_best) =>
        \A i \in 1..Len(scored) :
            /\ scored[i].sc <= report.score
            /\ scored[i].sc = report.score =>
                 scored[i].c.created_utc <= report.best_created_utc

\* the part of C5 the code keeps: the best has the maximum score
C5_Lemma_BestHasMaxScore ==
    (Done /\ report.has_best) =>
        \A i \in 1..Len(scored) : scored[i].sc <= report.score

\* what decides a tie in the code: the order of the shortlist, that is
\* (phash16 distance, -correlation) and then the order the rows were read in
C5_Lemma_TieKeepsShortlistOrder ==
    (Done /\ report.has_best) =>
        \A i, j \in 1..Len(cand_sl) :
            (i < j /\ cand_sl[j].post_id = report.best_post_id) =>
                \A k \in 1..Len(scored) :
                    scored[k].c # cand_sl[i] \/ scored[k].sc < report.score


\* a stored row whose five hashes are hex text and whose histogram is 256
\* packed float32 values
Decodable(r) ==
    /\ r.phash16.hex /\ r.phash8.hex /\ r.dhash16.hex
    /\ r.whash_haar.hex /\ r.center_phash16.hex
    /\ r.hsv_hist.nbytes = 4 * NBins

\* a candidate whose five hashes have the shapes of the query's hashes
SameShapes(c) ==
    /\ c.phash16.size = q_feats.phash16.size
    /\ c.phash8.size = q_feats.phash8.size
    /\ c.dhash16.size = q_feats.dhash16.size
    /\ c.whash.size = q_feats.whash.size
    /\ c.center_phash16.size = q_feats.center_phash16.size

WindowRows == {i \in 1..Len(db) : db[i].created_utc >= cfg.since}

C10_WitnessShortlist ==
    /\ Done
    /\ \E i \in 1..Len(candidates) : DistOf(candidates[i]) = Raised
    /\ report.has_best

\* a candidate was dropped in the scoring loop (ensemble_score raised)
C10_WitnessScoring ==
    /\ Done
    /\ \E i \in 1..Len(cand_sl) : ~SameShapes(cand_sl[i])
    /\ report.has_best

\* a candidate dropped in the scoring loop had taken the only place of the
\* shortlist: a candidate that passes the filter is then not scored
C10_WitnessDisplaced ==
    /\ Done
    /\ \E i \in 1..Len(cand_sl) : ~SameShapes(cand_sl[i])
    /\ \E i \in Passing :
         SameShapes(candidates[i]) /\ candidates[i] \notin Range(cand_sl)
    /\ ~report.has_best

----------------------------------------------------------------------------
(* Specification SpecBatch: run_match over the submissions of the window    *)

MaxBatch == 2        \* submissions iter_lr_window yields in one run

\* what a submission of the window shows: `opens` is FALSE when no URL is
\* found, the fetch fails or Pillow cannot open the bytes; `hashes` is FALSE
\* for a raster on which a call of compute_hashes raises
BatchImages ==
    { [name |-> "A", opens |-> TRUE, hashes |-> TRUE],
      [name |-> "D", opens |-> TRUE, hashes |-> TRUE],
      [name |-> "X", opens |-> FALSE, hashes |-> FALSE],
      [name |-> "Z", opens |-> TRUE, hashes |-> FALSE] }

\* the submissions of one run in listing order; the i-th has post_id i
Batches == UNION {[1..n -> BatchImages] : n \in 0..MaxBatch}

BatchStores ==
    { <<>>,
      <<IndexRec(CHOOSE p \in Posts : p.id = "p1", Raster("A"))>>,
      <<IndexRec(CHOOSE p \in Posts : p.id = "p1", Raster("B")),
        IndexRec(CHOOSE p \in Posts : p.id = "p2", Raster("A"))>> }

BatchConfigs ==
    {c \in Configs : c.ph_max = 10 /\ c.hsv_min = 90 /\ c.max_candidates = 2
                     /\ c.since = 0}

InitBatch ==
    /\ db \in BatchStores
    /\ cfg \in BatchConfigs
    /\ batch \in Batches
    /\ bi = 0 /\ rows_csv = <<>> /\ bpc = "start"
    /\ mpc = "idle" /\ q_feats = <<>> /\ cand_sl = <<>> /\ scored = <<>>
    /\ report = NoReport
    /\ wtx = <<>> /\ wpc = "idle"
    /\ wsince = 0 /\ wnew_last = 0 /\ wline = 0 /\ wcursor = 0
    /\ shards = <<>> /\ last_indexed_utc = 0 /\ nruns = 0
    /\ last = NoStmt
    /\ ReadIdle /\ DecideIdle /\ EngineIdle /\ ShardIdle /\ ScanIdle

\* run_match up to the loop
BatchLoad(plan) ==
    /\ bpc = "start"
    /\ bpc' = "loop"
    /\ rsince' = cfg.since
    /\ candidates' = load_candidates(db, cfg.since, plan)
    /\ UNCHANGED <<batch, bi, rows_csv, matchVars, storeVars, decideVars,
                   engineVars, shardVars, scanVars>>

\* the loop body for a submission without a usable image: one of the
\* `continue` statements before compute_hashes
BatchSkip ==
    /\ bpc = "loop" /\ bi < Len(batch)
    /\ ~batch[bi + 1].opens
    /\ bi' = bi + 1
    /\ UNCHANGED <<batch, rows_csv, bpc, matchVars, storeVars, readVars,
                   decideVars, engineVars, shardVars, scanVars>>

\* the loop body when compute_hashes raises: the call stands outside every
\* try, the exception leaves the loop and run_match
BatchRaise ==
    /\ bpc = "loop" /\ bi < Len(batch)
    /\ batch[bi + 1].opens /\ ~batch[bi + 1].hashes
    /\ bpc' = "raised"
    /\ UNCHANGED <<batch, bi, rows_csv, matchVars, storeVars, readVars,
                   decideVars, engineVars, shardVars, scanVars>>

\* the loop body for a query that is hashed, matched and given its rows
BatchRow ==
    /\ bpc = "loop" /\ bi < Len(batch)
    /\ batch[bi + 1].opens /\ batch[bi + 1].hashes
    /\ LET q == compute_hashes(Raster(batch[bi + 1].name))
           sl == shortlist(candidates, q, cfg)
           sc == SortScored(ScoreAll(sl, q, cfg.weights))
       IN /\ q_feats' = q
          /\ cand_sl' = sl
          /\ scored' = sc
          /\ rows_csv' = Append(rows_csv, [post_id |-> bi + 1,
                                           row |-> MatchRow(sc, cfg)])
    /\ bi' = bi + 1
    /\ UNCHANGED <<batch, bpc, mpc, cfg, report, storeVars, readVars,
                   decideVars, engineVars, shardVars, scanVars>>

\* after the loop: the CSV and the JSONL reports are written from the rows
BatchWrite ==
    /\ bpc = "loop" /\ bi = Len(batch)
    /\ bpc' = "written"
    /\ UNCHANGED <<batch, bi, rows_csv, matchVars, storeVars, readVars,
                   decideVars, engineVars, shardVars, scanVars>>

NextBatch ==
    \/ \E plan \in {"scan", "index"} : BatchLoad(plan)
    \/ BatchSkip
    \/ BatchRaise
    \/ BatchRow
    \/ BatchWrite

SpecBatch == InitBatch /\ [][NextBatch]_vars

\* the run is over: the reports are written, or an exception left run_match
BatchEnded == bpc \in {"written", "raised"}

HasRowFor(i) == \E k \in 1..Len(rows_csv) : rows_csv[k].post_id = i

\* C11: when a run over a batch is over, the reports are written and every
\* submission whose image was opened and hashed has its row, also when
\* compute_hashes raised for another submission of the batch.
C11_QueryFailureIsolated ==
    BatchEnded =>
        /\ bpc = "written"
        /\ \A i \in 1..Len(batch) :
               (batch[i].opens /\ batch[i].hashes) => HasRowFor(i)

\* the part of C11 that holds: an image that cannot be fetched or opened
\* costs its own row only, and only a raising compute_hashes ends a run early
C11_Lemma_OpenFailureIsolated ==
    /\ bpc = "written" =>
           \A i \in 1..Len(batch) : batch[i].opens <=> HasRowFor(i)
    /\ bpc = "raised" =>
           /\ bi < Len(batch)
           /\ batch[bi + 1].opens /\ ~batch[bi + 1].hashes
           /\ \A i \in (bi + 1)..Len(batch) : ~HasRowFor(i)

\* a submission behind the one that raised is left without its row
C11_WitnessRowLost ==
    /\ bpc = "raised"
    /\ \E i \in (bi + 2)..Len(batch) : batch[i].opens /\ batch[i].hashes

----------------------------------------------------------------------------
(* Self-match: a query with the raster a stored record was made from *)

\* the query of the run is raster x, and row r was written for x
IndexedFrom(r, x) ==
    \E s \in Posts : r = IndexRec(s, x)

BuiltFrom(r, x) ==
    \E s \in Posts : r = BuildRec(ShardRec(s, x))

QueryIs(x) == mpc \in {"shortlisted", "scored", "done"} /\ q_feats = compute_hashes(x)

\* distances 0, correlation 1 and CERTAIN for the stored row r against the
\* query of the run
SelfMatches(r) ==
    LET d == DecodeRow(r)
        e == ensemble_score(q_feats, d.cand, cfg.weights)
    IN /\ d.ok
       /\ e.ok
       /\ e.parts.dist_ph16 = 0 /\ e.parts.dist_ph8 = 0
       /\ e.parts.dist_dh16 = 0 /\ e.parts.dist_wh = 0
       /\ e.parts.dist_ctr = 0
       /\ e.parts.hsv_corr = 100
       /\ decide(e.score, e.parts, cfg.thresholds) = "CERTAIN"

\* C12: for every stored record made from a raster, by run_index or by
\* gh_indexer and gh_build_sqlite, a query with the same raster has
\* distance 0 in the five hashes and correlation 1 against the record, and
\* decide returns CERTAIN for it.
C12_SelfMatch ==
    \A x \in QueryRasters :
        QueryIs(x) =>
            \A i \in 1..Len(db) :
                (IndexedFrom(db[i], x) \/ BuiltFrom(db[i], x)) => SelfMatches(db[i])

\* the sum of the six weights, in score units
WeightSum(w) ==
    6400 * (w.phash16 + w.phash8 + w.dhash16 + w.whash + w.center + w.hsv)

\* the part of C12 that holds: a record written by run_index has distance
\* 0 and correlation 1 against its own raster, its score is the sum of the
\* weights, and it is CERTAIN exactly when that sum reaches
\* thresholds.certain
C12_Lemma_SelfMatchIndexed ==
    \A x \in QueryRasters :
        QueryIs(x) =>
            \A i \in 1..Len(db) :
                IndexedFrom(db[i], x) =>
                    LET d == DecodeRow(db[i])
                        e == ensemble_score(q_feats, d.cand, cfg.weights)
                    IN /\ d.ok /\ e.ok
                       /\ e.parts = [dist_ph16 |-> 0, dist_ph8 |-> 0,
                                     dist_dh16 |-> 0, dist_wh |-> 0,
                                     dist_ctr |-> 0, hsv_corr |-> 100]
                       /\ e.score = WeightSum(cfg.weights)
                       /\ (decide(e.score, e.parts, cfg.thresholds) = "CERTAIN")
                            <=> (WeightSum(cfg.weights) >= cfg.thresholds.certain)

\* a record built from a shard line is queried with its own raster
C12_WitnessBuilt ==
    \E x \in QueryRasters :
        QueryIs(x) /\ \E i \in 1..Len(db) : BuiltFrom(db[i], x)

\* a record written by run_index is queried with its own raster under
\* weights that sum to less than thresholds.certain
C12_WitnessLowWeights ==
    \E x \in QueryRasters :
        /\ QueryIs(x) /\ mpc = "done"
        /\ \E i \in 1..Len(db) : IndexedFrom(db[i], x)
        /\ WeightSum(cfg.weights) < cfg.thresholds.certain
        /\ report.status # "CERTAIN"

----------------------------------------------------------------------------
(* Specification SpecScore: ensemble_score, through the scoring loop of     *)
(* run_match, on every pair of feature sets the extractors produce          *)

\* the feature sets of a query: compute_hashes on each raster
ScoreQueries == {compute_hashes(r) : r \in Rasters}

\* the candidates: load_candidates on a row run_index wrote for a raster
\* it keeps
ScoreCandidates ==
    {DecodeRow(IndexRec(CHOOSE p \in Posts : p.id = "p1", r)).cand :
        r \in {x \in Rasters : should_keep_image(x)}}

InitScore ==
    /\ mpc = "shortlisted"
    /\ q_feats \in ScoreQueries
    /\ cand_sl \in {<<c>> : c \in ScoreCandidates}
    /\ cfg \in BatchConfigs
    /\ scored = <<>> /\ report = NoReport
    /\ StoreIdle /\ ReadIdle /\ DecideIdle /\ BatchIdle /\ EngineIdle /\ ShardIdle /\ ScanIdle

NextScore == MatchScore

SpecScore == InitScore /\ [][NextScore]_vars

\* 1 - d/m when d <= m and 0 when d > m, in 64ths (m is 64 or 32)
Similarity(d, m) == IF d <= m THEN (64 * (m - d)) \div m ELSE 0

\* the distances and the correlation of a candidate, from the two feature
\* sets
RawParts(q, c) ==
    [dist_ph16 |-> Abs(q.phash16.bits - c.phash16.bits),
     dist_ph8 |-> Abs(q.phash8.bits - c.phash8.bits),
     dist_dh16 |-> Abs(q.dhash16.bits - c.dhash16.bits),
     dist_wh |-> Abs(q.whash.bits - c.whash.bits),
     dist_ctr |-> Abs(q.center_phash16.bits - c.center_phash16.bits),
     hsv_corr |-> q.hsv_hist[1] * c.hsv_hist[1] + q.hsv_hist[2] * c.hsv_hist[2]
                  + q.hsv_hist[3] * c.hsv_hist[3]]

\* the weighted sum of C13 over parts p, in score units
FusedScore(p, w) ==
    100 * ( w.phash16 * Similarity(p.dist_ph16, 64)
          + w.phash8 * Similarity(p.dist_ph8, 32)
          + w.dhash16 * Similarity(p.dist_dh16, 64)
          + w.whash * Similarity(p.dist_wh, 64)
          + w.center * Similarity(p.dist_ctr, 64) )
    + 64 * w.hsv * p.hsv_corr

Similarities(p) ==
    { Similarity(p.dist_ph16, 64), Similarity(p.dist_ph8, 32),
      Similarity(p.dist_dh16, 64), Similarity(p.dist_wh, 64),
      Similarity(p.dist_ctr, 64) }

\* C13: the score ensemble_score returns is the weighted sum of the five
\* similarities 1 - d/m, 0 when d > m, and of the correlation; every
\* similarity lies in [0,1]; the distances and the correlation are returned
\* as they are.
C13_EnsembleScore ==
    mpc = "scored" =>
        \A i \in 1..Len(scored) :
            /\ scored[i].parts = RawParts(q_feats, scored[i].c)
            /\ scored[i].sc = FusedScore(scored[i].parts, cfg.weights)
            /\ \A x \in Similarities(scored[i].parts) : 0 <= x /\ x <= 64
            /\ scored[i].sc >= 64 * cfg.weights.hsv * scored[i].parts.hsv_corr

\* a candidate was scored with one distance above its maximum and another
\* between 0 and its maximum
C13_Witness ==
    /\ mpc = "scored"
    /\ \E i \in 1..Len(scored) :
         /\ scored[i].parts.dist_ph16 > 64
         /\ scored[i].parts.dist_ph8 > 0 /\ scored[i].parts.dist_ph8 < 32
         /\ scored[i].parts.hsv_corr > 0

----------------------------------------------------------------------------
(* The distances of two extracted feature sets against the maxima of        *)
(* ensemble_score                                                           *)

\* C14: for two feature sets the extractors produce, no distance exceeds
\* the maximum ensemble_score normalises it by: 64 for phash16, 32 for
\* phash8, 64 for dhash16, whash and center_phash16, so that no similarity
\* is clamped.
C14_DistancesWithinMaxima ==
    mpc = "scored" =>
        \A i \in 1..Len(scored) :
            /\ scored[i].parts.dist_ph16 <= 64
            /\ scored[i].parts.dist_ph8 <= 32
            /\ scored[i].parts.dist_dh16 <= 64
            /\ scored[i].parts.dist_wh <= 64
            /\ scored[i].parts.dist_ctr <= 64

\* what bounds the distances: the number of bits of a hash, hash_size
\* squared, 256 for hash_size 16 and 64 for hash_size 8
C14_Lemma_DistancesWithinBits ==
    mpc = "scored" =>
        \A i \in 1..Len(scored) :
            /\ q_feats.phash16.size = 16 /\ scored[i].c.phash16.size = 16
            /\ q_feats.phash8.size = 8 /\ scored[i].c.phash8.size = 8
            /\ scored[i].parts.dist_ph16 <= 16 * 16
            /\ scored[i].parts.dist_ph8 <= 8 * 8
            /\ scored[i].parts.dist_dh16 <= 16 * 16
            /\ scored[i].parts.dist_wh <= 16 * 16
            /\ scored[i].parts.dist_ctr <= 16 * 16

\* a pair of extracted feature sets whose phash16 differ in more than 64
\* bits: the similarity of the pair is clamped to 0
C14_WitnessClamped ==
    /\ mpc = "scored"
    /\ \E i \in 1..Len(scored) :
         /\ scored[i].parts.dist_ph16 > 64
         /\ normalize_score(scored[i].parts.dist_ph16, 64) = 0
         /\ normalize_score_unclamped(scored[i].parts.dist_ph16, 64) < 0

----------------------------------------------------------------------------
(* The thresholds of a run *)

\* C15: in every run of run_match thresholds.certain is above
\* thresholds.unsure, and a query reported CERTAIN has a score of at least
\* thresholds.unsure.
C15_CertainAboveUnsure ==
    mpc \in {"start", "loaded", "shortlisted", "scored", "done"} =>
        /\ cfg.thresholds.certain > cfg.thresholds.unsure
        /\ (Done /\ report.status = "CERTAIN")
              => report.score >= cfg.thresholds.unsure

\* the part of C15 that holds: under thresholds in that order a CERTAIN
\* score reaches both
C15_Lemma_OrderedThresholds ==
    (Done /\ cfg.thresholds.certain > cfg.thresholds.unsure
          /\ report.status = "CERTAIN")
        => report.score >= cfg.thresholds.unsure

\* a run under thresholds.certain below thresholds.unsure reports CERTAIN
\* for a score below thresholds.unsure
C15_WitnessCertainBelowUnsure ==
    /\ Done
    /\ report.status = "CERTAIN"
    /\ report.score < cfg.thresholds.unsure

----------------------------------------------------------------------------
(* Retention *)

\* C16: no step of run_index, of gh_build_sqlite or of a reader takes a
\* post_id out of the table, neither out of the committed table nor out of
\* the table as the writer sees it inside its transaction; a reader leaves
\* the table as it is, the rows below its since_ts included.
C16_NeverDeletes ==
    [][ /\ PostIdsOf(db) \subseteq PostIdsOf(db')
        /\ (wpc # "idle" /\ wpc' # "idle")
              => PostIdsOf(wtx) \subseteq PostIdsOf(wtx')
        /\ (candidates' # candidates \/ rsince' # rsince) => db' = db ]_vars

\* two writer runs are over, and a reader has left a row older than its
\* since_ts out of its result while the table still holds it
C16_Witness ==
    /\ nruns >= 2 /\ wpc = "idle"
    /\ candidates # <<>>
    /\ \E i \in 1..Len(db) :
         /\ db[i].created_utc < rsince
         /\ db[i].post_id \notin PostIdsOf(candidates)

----------------------------------------------------------------------------
(* Minimum size *)

\* the raster a stored row was last made from (ImageUrl names it)
RasterOfRow(r) == Raster(r.image_url[3])

BigEnough(img) == img.width >= MinWidth /\ img.height >= MinHeight

\* C17: every row of the table, committed or inside the writer's
\* transaction, written by run_index or built from a shard line of
\* gh_indexer, was made from a raster of at least min_width x min_height.
C17_StoredImagesBigEnough ==
    /\ \A i \in 1..Len(db) : BigEnough(RasterOfRow(db[i]))
    /\ \A i \in 1..Len(wtx) : BigEnough(RasterOfRow(wtx[i]))
    /\ \A i \in 1..Len(shards) :
           shards[i].json => BigEnough(Raster(shards[i].o.image_url[3]))

\* run_index has passed a submission of its window without writing a row
\* for it (its raster was too small) and has written a row for another
C17_Witness ==
    /\ wpc = "index"
    /\ wtx # <<>>
    /\ \E s \in Listing :
         /\ s.created_utc >= wcursor
         /\ ~(wsince # 0 /\ s.created_utc < wsince)
         /\ ~HasRow(wtx, s.id)

----------------------------------------------------------------------------
(* decision_engine: values, conversions and the helpers of decide           *)
(*                                                                         *)
(* A value a report or the configuration holds where the code expects a    *)
(* number is [kind, val]: kind "int" (an integer), "absent" (the key is    *)
(* missing), "null" (None) or "text" (a string int() rejects).  A string   *)
(* that may be missing is "" when it is.  A user name is a sequence of     *)
(* characters.                                                             *)

\* _DEFAULTS["decision"]
DefaultAuto == 93

DefaultBorder == 85

IntVal(n) == [kind |-> "int", val |-> n]

Absent == [kind |-> "absent", val |-> 0]

Null == [kind |-> "null", val |-> 0]

BadText == [kind |-> "text", val |-> 0]

\* int(x or 0) with x = d.get(key): a missing key, None and 0 give 0, a
\* string that is no number raises ValueError
int_or_0(x) ==
    IF x.kind = "text" THEN [ok |-> FALSE, val |-> 0]
    ELSE IF x.kind = "int" THEN [ok |-> TRUE, val |-> x.val]
    ELSE [ok |-> TRUE, val |-> 0]

\* int(_cfg_get(cfg, path, default)): the default for a missing key only;
\* int(None) raises TypeError, int of a string that is no number ValueError
int_cfg(x, default) ==
    IF x.kind = "absent" THEN [ok |-> TRUE, val |-> default]
    ELSE IF x.kind = "int" THEN [ok |-> TRUE, val |-> x.val]
    ELSE [ok |-> FALSE, val |-> 0]

\* _thresholds(cfg)
_thresholds(config) ==
    LET auto_t == int_cfg(config.title_threshold_auto, DefaultAuto)
        border_t == int_cfg(config.title_threshold_border, DefaultBorder)
    IN [ok |-> auto_t.ok /\ border_t.ok,
        auto_t |-> auto_t.val, border_t |-> border_t.val]

\* str.upper() on the status strings
Upper(s) ==
    CASE s = "certain" -> "CERTAIN"
      [] s = "unsure" -> "UNSURE"
      [] s = "none" -> "NONE"
      [] OTHER -> s

\* _poster_status: a missing report or status is NONE, NO_REPORT is NONE
_poster_status(poster_report) ==
    LET st == Upper(IF poster_report.status = "" THEN "NONE"
                    ELSE poster_report.status)
    IN IF st = "NO_REPORT" THEN "NONE" ELSE st

\* _evidence_title: type, score, relation and the candidate of best; a
\* report without best is title_report.has_best = FALSE
_evidence_title(title_report) ==
    LET best == title_report.best
        has == title_report.has_best
        score == IF has THEN int_or_0(best.score) ELSE int_or_0(Absent)
    IN [ok |-> score.ok,
        type |-> IF has /\ best.type # "" THEN best.type
                 ELSE IF has THEN "fuzzy" ELSE "none",
        score |-> score.val,
        relation |-> IF has /\ best.relation # "" THEN best.relation
                     ELSE "unknown",
        author |-> IF has THEN best.author ELSE <<>>]

RECURSIVE lstrip(_, _)
\* str.lstrip(chars): leading characters of the set chars are removed
lstrip(s, chars) ==
    IF s # <<>> /\ Head(s) \in chars THEN lstrip(Tail(s), chars) ELSE s

\* str.lower() on the characters of the user names
Lower(s) == [i \in 1..Len(s) |-> IF s[i] = "M" THEN "m" ELSE s[i]]

\* _is_title_border, _is_title_certain
_is_title_border(score, auto_t, border_t) == border_t <= score /\ score < auto_t

_is_title_certain(score, auto_t) == score >= auto_t


RECURSIVE rstrip_ws(_)
\* trailing blanks removed
rstrip_ws(s) ==
    IF s # <<>> /\ s[Len(s)] = " " THEN rstrip_ws(SubSeq(s, 1, Len(s) - 1))
    ELSE s

\* str.strip()
strip(s) == rstrip_ws(lstrip(s, {" "}))

\* allow_authors = {str(a).strip().lower() for a in cfg_allow}
allow_authors(config) == {Lower(strip(a)) : a \in config.allow_authors}

\* cand_author_norm = cand_author.lstrip("u/").strip().lower()
cand_author_norm(cand_author) == Lower(strip(lstrip(cand_author, {"u", "/"})))

\* the title signal is neutralised for an allow-listed candidate author
Neutralised(t_evd, config) ==
    LET norm == cand_author_norm(t_evd.author)
    IN norm # <<>> /\ norm \in allow_authors(config)

\* a DecisionReport: the fields the decision is read from; None is ""
Report(action, category, removal_reason) ==
    [kind |-> "returned", action |-> action, category |-> category,
     removal_reason |-> removal_reason]

\* decide left by an exception
Raised_de == [kind |-> "raised", action |-> "", category |-> "",
              removal_reason |-> ""]

\* steps 2 to 6 with a DUPLICATE rule that asks for a CERTAIN poster only
de_rules_poster_only(t_score, t_type, t_rel, p_status, auto_t, border_t) ==
    IF t_rel = "same_author" /\ p_status = "CERTAIN"
    THEN Report("AUTO_REMOVE", "DUPLICATE", "Duplicate Post")
    ELSE IF t_rel = "different_author"
            /\ (t_type \in {"exact", "normalized_exact"} \/ p_status = "CERTAIN")
    THEN Report("AUTO_REMOVE", "REPEATED", "Repeated Request")
    ELSE IF _is_title_border(t_score, auto_t, border_t)
            /\ p_status \in {"NONE", "NO_IMAGE", "UNSURE", "NO_REPORT"}
    THEN Report("MOD_QUEUE", "AMBIGUOUS", "")
    ELSE IF p_status = "UNSURE"
    THEN Report("MOD_QUEUE", "AMBIGUOUS", "")
    ELSE IF t_type \in {"exact", "normalized_exact"}
            /\ p_status \notin {"NONE", "NO_IMAGE"} /\ p_status # "CERTAIN"
    THEN Report("MOD_QUEUE", "CONFLICT", "")
    ELSE Report("NO_ACTION", "NO_SIGNAL", "")

\* decide, steps 2 to 6: the rules over the collected evidence
de_rules(t_score, t_type, t_rel, p_status, auto_t, border_t) ==
    IF t_rel = "same_author"
       /\ (_is_title_certain(t_score, auto_t) \/ p_status = "CERTAIN")
    THEN Report("AUTO_REMOVE", "DUPLICATE", "Duplicate Post")
    ELSE IF t_rel = "different_author"
            /\ (t_type \in {"exact", "normalized_exact"} \/ p_status = "CERTAIN")
    THEN Report("AUTO_REMOVE", "REPEATED", "Repeated Request")
    ELSE IF _is_title_border(t_score, auto_t, border_t)
            /\ p_status \in {"NONE", "NO_IMAGE", "UNSURE", "NO_REPORT"}
    THEN Report("MOD_QUEUE", "AMBIGUOUS", "")
    ELSE IF p_status = "UNSURE"
    THEN Report("MOD_QUEUE", "AMBIGUOUS", "")
    ELSE IF t_type \in {"exact", "normalized_exact"}
            /\ p_status \notin {"NONE", "NO_IMAGE"} /\ p_status # "CERTAIN"
    THEN Report("MOD_QUEUE", "CONFLICT", "")
    ELSE Report("NO_ACTION", "NO_SIGNAL", "")

\* the body of the try of decide: ok is FALSE when a statement of it raises
de_try(validator, title_report, poster_report, config) ==
    LET th == _thresholds(config)
        v_status == IF validator.status = "" THEN "OK" ELSE validator.status
        t_evd == _evidence_title(title_report)
        p_status == _poster_status(poster_report)
        off == Neutralised(t_evd, config)
        t_score == IF off THEN 0 ELSE t_evd.score
        t_type == IF off THEN "none" ELSE t_evd.type
        t_rel == IF off THEN "unknown" ELSE t_evd.relation
    IN IF ~th.ok THEN [ok |-> FALSE, res |-> Raised_de]
       ELSE IF v_status = "MISSING"
       THEN [ok |-> t_evd.ok,
             res |-> Report("AUTO_REMOVE", "MISSING",
                            "Lack of Drama Name or Description in Title")]
       ELSE IF ~t_evd.ok THEN [ok |-> FALSE, res |-> Raised_de]
       ELSE [ok |-> TRUE,
             res |-> de_rules(t_score, t_type, t_rel, p_status,
                              th.auto_t, th.border_t)]

\* the except clause of decide: it builds the title evidence once more, so
\* what made _evidence_title raise in the try raises out of decide
de_except(title_report) ==
    IF _evidence_title(title_report).ok
    THEN Report("MOD_QUEUE", "ENGINE_ERROR", "")
    ELSE Raised_de

\* decision_engine.decide
de_decide(validator, title_report, poster_report, config) ==
    LET t == de_try(validator, title_report, poster_report, config)
    IN IF t.ok THEN t.res ELSE de_except(title_report)

(* The calls of decide the model makes.                                    *)

\* user names: "u/t", "u/M" (allow-listed as "m"), "u/um" and none
Authors == {<<>>, <<"u", "/", "t">>, <<"u", "/", "M">>, <<"u", "/", "u", "m">>}

ValidatorReports == {[status |-> s] : s \in {"", "OK", "AMBIGUOUS", "MISSING"}}

TitleScores == {Absent, BadText, IntVal(84), IntVal(85), IntVal(90),
                IntVal(92), IntVal(93), IntVal(95), IntVal(100)}

BestMatches ==
    [score : TitleScores,
     type : {"", "exact", "normalized_exact", "fuzzy"},
     relation : {"", "same_author", "different_author"},
     author : Authors]

NoBest == [score |-> Absent, type |-> "", relation |-> "", author |-> <<>>]

TitleReports ==
    {[has_best |-> FALSE, best |-> NoBest]}
    \cup {[has_best |-> TRUE, best |-> b] : b \in BestMatches}

PosterReports ==
    {[status |-> s] :
        s \in {"", "CERTAIN", "certain", "UNSURE", "NONE", "NO_IMAGE",
               "NO_REPORT"}}

EngineConfigs ==
    [title_threshold_auto : {Absent, Null, IntVal(90)},
     title_threshold_border : {Absent},
     allow_authors : {{}, {<<"M", " ">>}}]

EngineInputs ==
    [validator : ValidatorReports, title_report : TitleReports,
     poster_report : PosterReports, config : EngineConfigs]

InitEngine ==
    /\ StoreIdle /\ ReadIdle /\ DecideIdle /\ MatchIdle /\ BatchIdle
    /\ ShardIdle /\ ScanIdle
    /\ de_in \in EngineInputs
    /\ de_out = <<>>

EngineCall ==
    /\ DOMAIN de_out = {}
    /\ de_out' = de_decide(de_in.validator, de_in.title_report,
                           de_in.poster_report, de_in.config)
    /\ UNCHANGED <<de_in, storeVars, readVars, decideVars, matchVars, batchVars,
                   shardVars, scanVars>>

NextEngine == EngineCall

SpecEngine == InitEngine /\ [][NextEngine]_vars


\* decide has returned or raised
EngineDone == DOMAIN de_out # {}

ValidatorMissing == de_in.validator.status = "MISSING"

MissingReport ==
    Report("AUTO_REMOVE", "MISSING", "Lack of Drama Name or Description in Title")

\* C18: for every input whose validator status is MISSING decide returns
\* AUTO_REMOVE with category MISSING and the removal reason 'Lack of Drama
\* Name or Description in Title', whatever the title report, the poster
\* report and the configuration are.
C18_MissingFirst ==
    (EngineDone /\ ValidatorMissing) => de_out = MissingReport

\* C18, what the code does keep: with thresholds that convert and a title
\* score that converts, a MISSING validator status decides alone.
C18_Lemma_MissingFirstWellTyped ==
    (EngineDone /\ ValidatorMissing
     /\ _thresholds(de_in.config).ok
     /\ _evidence_title(de_in.title_report).ok)
        => de_out = MissingReport

\* C18: a MISSING post with title_threshold_auto set to null went to the
\* moderation queue as ENGINE_ERROR.
C18_WitnessEngineError ==
    /\ EngineDone /\ ValidatorMissing
    /\ de_in.config.title_threshold_auto = Null
    /\ de_out = Report("MOD_QUEUE", "ENGINE_ERROR", "")

\* C18: a MISSING post with a title evidence that differs from none was
\* removed as MISSING.
C18_WitnessMissing ==
    /\ EngineDone /\ ValidatorMissing
    /\ de_in.title_report.has_best
    /\ de_in.title_report.best.relation = "same_author"
    /\ de_in.title_report.best.score = IntVal(100)
    /\ de_in.poster_report.status = "CERTAIN"
    /\ de_out = MissingReport


ValidatorNotMissing == de_in.validator.status # "MISSING"

\* the best title match has the relation rel
BestRelation(rel) ==
    de_in.title_report.has_best /\ de_in.title_report.best.relation = rel

\* the best title match has a score, the configuration gives a threshold,
\* and the score is at least title_threshold_auto
ScoreAtLeastAuto ==
    /\ de_in.title_report.has_best
    /\ de_in.title_report.best.score.kind = "int"
    /\ _thresholds(de_in.config).ok
    /\ de_in.title_report.best.score.val >= _thresholds(de_in.config).auto_t

\* the candidate's author is on the allow-list of the configuration
AuthorAllowed == Neutralised(_evidence_title(de_in.title_report), de_in.config)

\* C19: for a validator status that is not MISSING, a best title match of
\* relation different_author with a score of at least title_threshold_auto
\* makes decide return AUTO_REMOVE with category REPEATED, for every match
\* type (also fuzzy) and also when the poster status is NONE.
C19_RepeatedAtAuto ==
    (EngineDone /\ ValidatorNotMissing /\ BestRelation("different_author")
     /\ ScoreAtLeastAuto)
        => (de_out.action = "AUTO_REMOVE" /\ de_out.category = "REPEATED")

\* C19, what the code does keep: the same with a match type exact or
\* normalized_exact, or a CERTAIN poster, and an author off the allow-list.
C19_Lemma_RepeatedExactOrPoster ==
    (EngineDone /\ ValidatorNotMissing /\ BestRelation("different_author")
     /\ ScoreAtLeastAuto /\ ~AuthorAllowed
     /\ (de_in.title_report.best.type \in {"exact", "normalized_exact"}
         \/ _poster_status(de_in.poster_report) = "CERTAIN"))
        => de_out = Report("AUTO_REMOVE", "REPEATED", "Repeated Request")

\* C19: a fuzzy match of score 95 by a different author, poster NONE,
\* default thresholds: no action.
C19_WitnessFuzzyNoAction ==
    /\ EngineDone
    /\ de_in.validator.status = "OK"
    /\ BestRelation("different_author")
    /\ de_in.title_report.best.type = "fuzzy"
    /\ de_in.title_report.best.score = IntVal(95)
    /\ de_in.title_report.best.author = <<"u", "/", "t">>
    /\ de_in.poster_report.status = "NONE"
    /\ de_in.config.title_threshold_auto = Absent
    /\ de_in.config.allow_authors = {}
    /\ de_out = Report("NO_ACTION", "NO_SIGNAL", "")


DuplicateReport == Report("AUTO_REMOVE", "DUPLICATE", "Duplicate Post")

C20_WitnessAllowed ==
    /\ EngineDone
    /\ de_in.validator.status = "OK"
    /\ BestRelation("same_author")
    /\ de_in.title_report.best.score = IntVal(100)
    /\ de_in.title_report.best.author = <<"u", "/", "M">>
    /\ de_in.config.allow_authors # {}
    /\ de_out.action # "AUTO_REMOVE"


\* the best title score s, as decide reads it (0 without best or score),
\* satisfies border_t <= s < auto_t under thresholds that convert
ScoreBorderline ==
    /\ _thresholds(de_in.config).ok
    /\ _evidence_title(de_in.title_report).ok
    /\ _is_title_border(_evidence_title(de_in.title_report).score,
                        _thresholds(de_in.config).auto_t,
                        _thresholds(de_in.config).border_t)

\* the poster status as the report holds it, upper-cased
PosterStatusIn(S) == Upper(de_in.poster_report.status) \in S

C21_Lemma_BorderlineNotExactRepeated ==
    (EngineDone /\ ValidatorNotMissing /\ ScoreBorderline
     /\ PosterStatusIn({"NONE", "NO_IMAGE", "UNSURE", "NO_REPORT"})
     /\ ~AuthorAllowed
     /\ ~(BestRelation("different_author")
          /\ de_in.title_report.best.type \in {"exact", "normalized_exact"}))
        => de_out = Report("MOD_QUEUE", "AMBIGUOUS", "")

\* C21: an exact match of score 92 by a different author, poster NONE,
\* default thresholds, was removed as a repeated request.
C21_WitnessBorderlineRemoved ==
    /\ EngineDone
    /\ de_in.validator.status = "OK"
    /\ BestRelation("different_author")
    /\ de_in.title_report.best.type = "exact"
    /\ de_in.title_report.best.score = IntVal(92)
    /\ de_in.poster_report.status = "NONE"
    /\ de_in.config.title_threshold_auto = Absent
    /\ de_in.config.allow_authors = {}
    /\ de_out = Report("AUTO_REMOVE", "REPEATED", "Repeated Request")


\* the best title score, as decide reads it, is below title_threshold_border
ScoreBelowBorder ==
    /\ _thresholds(de_in.config).ok
    /\ _evidence_title(de_in.title_report).ok
    /\ _evidence_title(de_in.title_report).score
           < _thresholds(de_in.config).border_t

C22_Lemma_LowScoreNotExactRepeated ==
    (EngineDone /\ ValidatorNotMissing /\ ScoreBelowBorder
     /\ PosterStatusIn({"NONE", "NO_REPORT"})
     /\ ~(~AuthorAllowed /\ BestRelation("different_author")
          /\ de_in.title_report.best.type \in {"exact", "normalized_exact"}))
        => de_out = Report("NO_ACTION", "NO_SIGNAL", "")

\* C22: an exact match of score 84 by a different author, poster NONE,
\* default thresholds, was removed as a repeated request.
C22_WitnessLowScoreRemoved ==
    /\ EngineDone
    /\ de_in.validator.status = "OK"
    /\ BestRelation("different_author")
    /\ de_in.title_report.best.type = "exact"
    /\ de_in.title_report.best.score = IntVal(84)
    /\ de_in.poster_report.status = "NONE"
    /\ de_in.config.title_threshold_auto = Absent
    /\ de_in.config.allow_authors = {}
    /\ de_out = Report("AUTO_REMOVE", "REPEATED", "Repeated Request")


\* C23: decide never raises: for every combination of validator, title
\* report, poster report and configuration, absent or malformed values
\* included, it returns a report whose action is AUTO_REMOVE, MOD_QUEUE or
\* NO_ACTION, and an internal failure yields MOD_QUEUE / ENGINE_ERROR.
C23_NeverRaises ==
    EngineDone =>
        /\ de_out.kind = "returned"
        /\ de_out.action \in {"AUTO_REMOVE", "MOD_QUEUE", "NO_ACTION"}
        /\ (~de_try(de_in.validator, de_in.title_report, de_in.poster_report,
                    de_in.config).ok
               => de_out = Report("MOD_QUEUE", "ENGINE_ERROR", ""))

\* C23, what the code does keep: with a title score that converts, decide
\* returns, and a threshold that does not convert yields ENGINE_ERROR.
C23_Lemma_ReturnsOnConvertibleScore ==
    (EngineDone /\ _evidence_title(de_in.title_report).ok) =>
        /\ de_out.kind = "returned"
        /\ de_out.action \in {"AUTO_REMOVE", "MOD_QUEUE", "NO_ACTION"}
        /\ (~_thresholds(de_in.config).ok
               => de_out = Report("MOD_QUEUE", "ENGINE_ERROR", ""))

\* C23: a title score that is no number made decide raise.
C23_WitnessRaised ==
    /\ EngineDone
    /\ de_in.validator.status = "OK"
    /\ de_in.title_report.has_best
    /\ de_in.title_report.best.score = BadText
    /\ de_in.config.title_threshold_auto = Absent
    /\ de_out = Raised_de


----------------------------------------------------------------------------
(* The round trip of the store *)

\* the five hashes and the histogram of a candidate
FeaturesOf(c) ==
    [phash16 |-> c.phash16, phash8 |-> c.phash8, dhash16 |-> c.dhash16,
     whash |-> c.whash, center_phash16 |-> c.center_phash16,
     hsv_hist |-> c.hsv_hist]

\* row r, made from its raster, is among the candidates cands with the
\* features extracted from that raster
ReturnedIntact(r, cands) ==
    \E k \in 1..Len(cands) :
        /\ cands[k].post_id = r.post_id
        /\ FeaturesOf(cands[k]) = compute_hashes(RasterOfRow(r))

\* C26: every record written by a writer of the table (run_index through
\* db_upsert, gh_build_sqlite from shard lines) with created_utc inside
\* the window is returned by load_candidates with the same five hashes and
\* the same histogram: no well-formed indexed record is dropped as corrupt.
C26_RoundTrip ==
    [][\A t \in ReadSince, plan \in {"scan", "index"} :
         LoadCandidates(t, plan) =>
            \A i \in 1..Len(db) :
                db[i].created_utc >= t => ReturnedIntact(db[i], candidates')]_vars

\* C26, what the code does keep: the round trip of the rows whose
\* histogram run_index packed with tobytes().
C26_Lemma_RoundTripPacked ==
    [][\A t \in ReadSince, plan \in {"scan", "index"} :
         LoadCandidates(t, plan) =>
            \A i \in 1..Len(db) :
                (db[i].created_utc >= t /\ db[i].hsv_hist.fmt = "f32")
                    => ReturnedIntact(db[i], candidates')]_vars

\* C26: the table holds a row gh_build_sqlite wrote, with its histogram as
\* JSON text, inside the window of the last read, and the read returned no
\* candidate for it.
C26_WitnessDropped ==
    \E i \in 1..Len(db) :
        /\ db[i].hsv_hist.fmt = "json"
        /\ wpc = "idle" /\ last.op = "none"
        /\ db[i].created_utc >= rsince
        /\ candidates = <<>>
        /\ Len(db) = 1

\* C26: a row run_index wrote came back with the features of its raster.
C26_WitnessPacked ==
    \E i \in 1..Len(db) :
        /\ db[i].hsv_hist.fmt = "f32"
        /\ ReturnedIntact(db[i], candidates)


----------------------------------------------------------------------------
(* Specification SpecShard: gh_indexer.run_once, run after run, appending   *)
(* to the shard file of one day                                             *)

MaxListing == 2      \* submissions sub.new() yields in one run
MaxShardRuns == 2    \* runs of run_once in one behaviour

\* what a submission of the listing gives when its image is asked for: no
\* URL, a fetch or a decode that raises, or a raster
ListedImages ==
    {[kind |-> "no_url", img |-> Raster("A")],
     [kind |-> "error", img |-> Raster("A")],
     [kind |-> "image", img |-> Raster("A")],
     [kind |-> "image", img |-> Raster("S")]}

ListedPosts == [s : Listing, got : ListedImages]

\* start_ts and end_ts of a run: the day, cut by now - delta_hours
ShardWindows == {[start_ts |-> 0, end_ts |-> 100], [start_ts |-> 15, end_ts |-> 100]}

\* the post ids of the lines json.loads accepts
SeenIn(f) == {f[i].o.post_id : i \in {j \in 1..Len(f) : f[j].json}}

InitShard ==
    /\ db = <<>> /\ wtx = <<>> /\ wpc = "idle"
    /\ wsince = 0 /\ wnew_last = 0 /\ wline = 0
    /\ last_indexed_utc = 0 /\ wcursor = 0 /\ nruns = 0
    /\ last = NoStmt
    /\ shards \in ShardFiles
    /\ gpc = "idle" /\ gseen = {} /\ glist = <<>> /\ gi = 0
    /\ gwin = <<>> /\ gruns = 0
    /\ ReadIdle /\ DecideIdle /\ MatchIdle /\ BatchIdle /\ EngineIdle /\ ScanIdle

\* run_once up to the loop: the window, seen read from the shard file
ShardBegin(win) ==
    /\ gpc = "idle" /\ gruns < MaxShardRuns
    /\ gpc' = "run"
    /\ gruns' = gruns + 1
    /\ gseen' = SeenIn(shards)
    /\ glist' = <<>>
    /\ gwin' = win
    /\ gi' = 0
    /\ UNCHANGED <<storeVars, readVars, decideVars, matchVars, batchVars,
                   engineVars, scanVars>>

\* the line run_once writes for an entry of the listing, or none: the
\* window test, the test on seen, the image, the size test
ShardLineFor(e, seen, win) ==
    IF e.s.created_utc < win.start_ts \/ e.s.created_utc > win.end_ts
    THEN <<>>
    ELSE IF e.s.id \in seen THEN <<>>
    ELSE IF e.got.kind # "image" THEN <<>>
    ELSE IF ~shard_keeps(compute_features(e.got.img)) THEN <<>>
    ELSE <<[json |-> TRUE, o |-> ShardRec(e.s, e.got.img)]>>

\* one turn of the loop of run_once for the entry e the listing yields next,
\* whichever submission that is; seen is left as it was read
ShardOne(e) ==
    /\ gpc = "run"
    /\ gi < MaxListing
    /\ gi' = gi + 1
    /\ glist' = Append(glist, e.s.id)
    /\ shards' = shards \o ShardLineFor(e, gseen, gwin)
    /\ UNCHANGED <<gpc, gseen, gwin, gruns,
                   db, wtx, wpc, wsince, wnew_last, wline, last_indexed_utc,
                   wcursor, nruns, last,
                   readVars, decideVars, matchVars, batchVars, engineVars,
                   scanVars>>

\* the listing is exhausted, or raises and main calls run_once again after
\* a pause: the file is closed with the lines written
ShardEnd ==
    /\ gpc = "run"
    /\ gpc' = "idle"
    /\ UNCHANGED <<gseen, glist, gi, gwin, gruns, storeVars, readVars,
                   decideVars, matchVars, batchVars, engineVars, scanVars>>

NextShard ==
    \/ \E win \in ShardWindows : ShardBegin(win)
    \/ \E e \in ListedPosts : ShardOne(e)
    \/ ShardEnd

SpecShard == InitShard /\ [][NextShard]_vars

\* each post_id is in at most one line of the shard file
OneLinePerPost(f) ==
    \A i, j \in 1..Len(f) :
        (f[i].json /\ f[j].json /\ f[i].o.post_id = f[j].o.post_id) => i = j

\* the lines of f are the first lines of g, unchanged
KeepsLines(f, g) == Len(g) >= Len(f) /\ SubSeq(g, 1, Len(f)) = f

\* no submission was yielded twice by the listing
NoRepeats(l) == \A i, j \in 1..Len(l) : l[i] = l[j] => i = j

\* C27: after any number of runs of run_once for one day, over any listing
\* of the platform, each post_id is in at most one line of the day's shard
\* file, and a line written is never rewritten or removed.
C27_ShardAppendIdempotent ==
    [][KeepsLines(shards, shards') /\ OneLinePerPost(shards')]_vars

\* C27, what the code does keep: lines are only appended, and a run over a
\* listing that holds no submission twice leaves one line per post_id.
C27_Lemma_NoRepeatsInListing ==
    [][/\ KeepsLines(shards, shards')
       /\ (OneLinePerPost(shards) /\ NoRepeats(glist'))
              => OneLinePerPost(shards')]_vars

\* C27: a second run found p1 in the file and skipped it.
C27_WitnessSkipped ==
    /\ gruns = 2 /\ gpc = "run" /\ gi = 1
    /\ glist = <<"p1">>
    /\ gwin.start_ts = 0
    /\ "p1" \in gseen
    /\ Len(shards) = 1 /\ shards[1].json

\* C27: one run over a listing that yields p1 twice wrote two lines for p1.
C27_WitnessTwoLines ==
    /\ gruns = 1 /\ gi = 2
    /\ glist = <<"p1", "p1">>
    /\ Len(shards) = 2
    /\ shards[1] = shards[2]


----------------------------------------------------------------------------
(* Specification SpecScan: recent_scan_live.main, run after run, against    *)
(* the platform (/new, the modqueue) and the state file.  One run at a      *)
(* time, every run with the same command line; time passes between runs.    *)

MaxScans == 2        \* runs of the scanner in one behaviour
MaxTicks == 3        \* steps of the clock in one behaviour

\* the clock at the first run and the step by which it moves, in seconds
ClockStart == 60

TickSec == 30

\* the submissions of the subreddit, as sub.new() yields them: newest first
ScanListing == <<CHOOSE p \in Posts : p.id = "p2", CHOOSE p \in Posts : p.id = "p1">>

ScanIds == {"p1", "p2"}

\* argparse: --state-file given or not, --state-ttl-min, --commit,
\* --sources, --mark-checked, --window
ScanArgs ==
    [state_file : BOOLEAN, state_ttl_min : {0, 1}, commit : BOOLEAN,
     sources : {"new", "modqueue", "both"}, mark_checked : BOOLEAN,
     window : {60}]

\* what the flair routing, the validator and the decision engine make of a
\* submission: a flair that is skipped, an Inquiry flair (with a title
\* is_generic_inquiry accepts under --inquiry-generic-only, or not), or a
\* Link Request with the action decided
Outcomes ==
    {"skip_flair", "inquiry", "inquiry_generic", "AUTO_REMOVE", "MOD_QUEUE",
     "NO_ACTION"}

\* load_state: the ids of the file, none without a path
load_state(path_given, file) == IF path_given THEN file ELSE {}

\* gc_state with the TTL taken as seconds
gc_state_ttl_in_seconds(ids, ttl_min, now) ==
    IF ttl_min <= 0 THEN ids
    ELSE {e \in ids : ~(e.ts < now - ttl_min)}

\* gc_state: the entries older than ttl_min minutes are dropped
gc_state(ids, ttl_min, now) ==
    IF ttl_min <= 0 THEN ids
    ELSE {e \in ids : ~(e.ts < now - ttl_min * 60)}

HasId(ids, pid) == \E e \in ids : e.pid = pid

within_window(created_utc, now, window_min) == created_utc >= now - window_min * 60

\* fetch_candidates: /new, then the modqueue, sorted oldest first (stable)
fetch_candidates(sources, window_min, now, gone, queue) ==
    LET new == SelectSeq(ScanListing,
                   LAMBDA s : s.id \notin gone
                              /\ within_window(s.created_utc, now, window_min))
        mq  == SelectSeq(ScanListing,
                   LAMBDA s : s.id \in queue /\ s.id \notin gone
                              /\ within_window(s.created_utc, now, window_min))
        out == (IF sources \in {"new", "both"}
                THEN [i \in 1..Len(new) |->
                         [key |-> <<new[i].created_utc, 0>>,
                          val |-> [source |-> "new", pid |-> new[i].id]]]
                ELSE <<>>)
               \o
               (IF sources \in {"modqueue", "both"}
                THEN [i \in 1..Len(mq) |->
                         [key |-> <<mq[i].created_utc, 0>>,
                          val |-> [source |-> "modqueue", pid |-> mq[i].id]]]
                ELSE <<>>)
    IN Vals(StableSort(out))

\* the calls the executor makes for one entry, in the order made
ExecutorCalls(outcome, source, pid, a, done) ==
    IF ~a.commit THEN <<>>
    ELSE IF outcome \in {"inquiry_generic", "AUTO_REMOVE"}
    THEN <<"remove", "message">>
    ELSE IF outcome = "MOD_QUEUE"
    THEN (IF source = "new" THEN <<"report">> ELSE <<>>)
    ELSE IF outcome = "NO_ACTION"
    THEN (IF a.mark_checked /\ source = "modqueue"
             /\ ~(\E c \in done : c.op = "mod_report" /\ c.pid = pid)
          THEN <<"mod_report">> ELSE <<>>)
    ELSE <<>>

InitScan ==
    /\ StoreIdle /\ ReadIdle /\ DecideIdle /\ MatchIdle /\ BatchIdle
    /\ EngineIdle /\ ShardIdle
    /\ state_file = {} /\ clock = ClockStart
    /\ modqueue \in SUBSET ScanIds /\ removed = {}
    /\ spc = "idle" /\ args \in ScanArgs /\ posts = <<>> /\ si = 0 /\ state = {}
    /\ calls = {} /\ handled = {} /\ runs_log = <<>> /\ nscans = 0

\* main up to the loop, d steps of the clock after the run before:
\* load_state, gc_state, fetch_candidates
ScanBegin(d) ==
    /\ spc = "idle" /\ nscans < MaxScans
    /\ clock + d * TickSec <= ClockStart + MaxTicks * TickSec
    /\ clock' = clock + d * TickSec
    /\ spc' = "loop"
    /\ nscans' = nscans + 1
    /\ state' = gc_state(load_state(args.state_file, state_file),
                         args.state_ttl_min, clock')
    /\ posts' = fetch_candidates(args.sources, args.window, clock', removed,
                                 modqueue)
    /\ si' = 0
    /\ runs_log' = Append(runs_log, [start |-> clock'])
    /\ UNCHANGED <<state_file, args, modqueue, removed, calls, handled,
                   storeVars, readVars, decideVars, matchVars, batchVars,
                   engineVars, shardVars>>

\* one turn of the loop of main: the state test, then the routing, the
\* decision and the executor
ScanPost(outcome) ==
    /\ spc = "loop"
    /\ si < Len(posts)
    /\ si' = si + 1
    /\ LET e == posts[si + 1]
           ops == ExecutorCalls(outcome, e.source, e.pid, args, calls)
       IN IF args.state_file /\ HasId(state, e.pid)
          THEN UNCHANGED <<state, handled, calls, modqueue, removed>>
          ELSE /\ state' = IF args.state_file
                           THEN state \cup {[pid |-> e.pid, ts |-> clock]}
                           ELSE state
               /\ handled' = handled \cup
                      {[pid |-> e.pid, at |-> clock, run |-> nscans,
                        idx |-> si + 1]}
               /\ calls' = calls \cup
                      {[op |-> ops[k], pid |-> e.pid, source |-> e.source,
                        run |-> nscans, queued |-> e.pid \in modqueue] :
                          k \in 1..Len(ops)}
               /\ modqueue' = IF "report" \in Range(ops)
                              THEN modqueue \cup {e.pid}
                              ELSE IF "remove" \in Range(ops)
                              THEN modqueue \ {e.pid}
                              ELSE modqueue
               /\ removed' = IF "remove" \in Range(ops)
                             THEN removed \cup {e.pid} ELSE removed
    /\ UNCHANGED <<state_file, clock, spc, args, posts, runs_log, nscans,
                   storeVars, readVars, decideVars, matchVars, batchVars,
                   engineVars, shardVars>>

\* the loop is over: save_state, when a state file is given
ScanEnd ==
    /\ spc = "loop"
    /\ si = Len(posts)
    /\ spc' = "idle"
    /\ state_file' = IF args.state_file THEN state ELSE state_file
    /\ UNCHANGED <<clock, modqueue, removed, args, posts, si, state, calls,
                   handled, runs_log, nscans,
                   storeVars, readVars, decideVars, matchVars, batchVars,
                   engineVars, shardVars>>

NextScan ==
    \/ \E d \in 0..MaxTicks : ScanBegin(d)
    \/ \E outcome \in Outcomes : ScanPost(outcome)
    \/ ScanEnd

SpecScan == InitScan /\ [][NextScan]_vars


\* b is a later occurrence than a: later in the same run, or in a later run
LaterThan(a, b) == a.run < b.run \/ (a.run = b.run /\ a.idx < b.idx)

\* no post taken past the state test is taken again later in its run, nor
\* in a later run that starts before its time + state_ttl_min minutes
NoReprocessing ==
    \A a, b \in handled :
        (a.pid = b.pid /\ LaterThan(a, b)) =>
            /\ a.run < b.run
            /\ ~(runs_log[b.run].start < a.at + args.state_ttl_min * 60)

C24_WitnessExpired ==
    /\ args.state_file /\ args.state_ttl_min = 1
    /\ \E a, b \in handled :
          /\ a.pid = "p1" /\ b.pid = "p1" /\ a.run = 1 /\ b.run = 2
          /\ b.at = a.at + 90

\* C24: one run met p1 in /new and in the modqueue and took it once.
C24_WitnessSameRun ==
    /\ args.state_file
    /\ nscans = 1 /\ si = 2
    /\ posts[1].pid = "p1" /\ posts[2].pid = "p1"
    /\ \E a \in handled : a.pid = "p1" /\ a.idx = 1
    /\ ~(\E b \in handled : b.pid = "p1" /\ b.idx = 2)


\* C25: in commit mode report() is called on a submission only when it
\* came from /new, a submission that is already in the modqueue is never
\* reported, also when the run fetches it from /new and from the modqueue,
\* and without --commit no remove, report or message call is made at all.
C25_NoDuplicateReport ==
    \A c \in calls :
        /\ args.commit
        /\ c.op = "report" => (c.source = "new" /\ ~c.queued)

\* C25, what the code does keep: every call is made under --commit, and
\* report() only for an entry of the list whose source is /new.
C25_Lemma_ReportsFromNewOnly ==
    \A c \in calls :
        /\ args.commit
        /\ c.op = "report" => c.source = "new"

\* C25: a run over both sources fetched p1 from /new and from the modqueue
\* and reported it through its /new entry.
C25_WitnessReportedFromQueue ==
    /\ args.commit /\ args.sources = "both" /\ ~args.state_file
    /\ nscans = 1 /\ si = 2
    /\ posts[1] = [source |-> "new", pid |-> "p1"]
    /\ posts[2] = [source |-> "modqueue", pid |-> "p1"]
    /\ \E c \in calls : c.op = "report" /\ c.pid = "p1" /\ c.queued

\* C25: a run without --commit went through its list and made no call.
C25_WitnessDryRun ==
    /\ ~args.commit
    /\ nscans = 1 /\ spc = "idle" /\ Len(posts) = 2
    /\ Cardinality(handled) = 2
    /\ calls = {}

============================================================================
